---------------------------- MODULE Spec2Model ----------------------------
(***************************************************************************)
(* A model of jdent (peadar/JSONdent): the streaming JSON scanner and      *)
(* parsers of json.h, the exact-decimal Number of the json.h variant that  *)
(* carries it, the string escaper, the pretty printer of indent.cc and the *)
(* operand loop of main.                                                   *)
(*                                                                         *)
(* Bytes are the integers 0..255.  A `char` is signed (the x86-64 ABI the  *)
(* Makefile builds for), so the byte 255 stored in a char is -1.  Text is  *)
(* a sequence of bytes.  The parsers are operators on a machine record m   *)
(* that threads the input stream, the output sink and the exception state  *)
(* through the calls, in the order the code makes them.                    *)
(*                                                                         *)
(* Scope: numbers are rendered in the default integer mode (doFloat is     *)
(* false); the native double formatting of -f is not modelled.             *)
(***************************************************************************)
EXTENDS Integers, Sequences, FiniteSets, TLC

(***************************************************************************)
(* Characters the code names in its literals.                              *)
(***************************************************************************)
Chr ==
  [ quote |-> 34, bslash |-> 92, slash |-> 47, lbrace |-> 123, rbrace |-> 125,
    lbrack |-> 91, rbrack |-> 93, colon |-> 58, comma |-> 44, minus |-> 45,
    plus |-> 43, dot |-> 46, zero |-> 48, nine |-> 57, sp |-> 32, nl |-> 10,
    bs |-> 8, ff |-> 12, cr |-> 13, tab |-> 9,
    a |-> 97, b |-> 98, e |-> 101, f |-> 102, l |-> 108, n |-> 110, r |-> 114,
    s |-> 115, t |-> 116, u |-> 117, x |-> 120, E |-> 69, A |-> 65, F |-> 70 ]

\* istream's end-of-file value, and skipSpace's return at end of stream.
EOF == 0 - 1

\* int -> char conversion (signed 8-bit char).
ToChar(i) == IF i >= 128 THEN i - 256 ELSE i

\* <cctype> in the "C" locale.
isspace(c) == (c >= 9 /\ c <= 13) \/ c = 32
isdigit(c) == c >= 48 /\ c <= 57

\* LET x == e IN F(x), with e evaluated once, and its form for a call that
\* may have thrown: the rest of the caller runs only when m.st is "ok".
Let(x, F(_)) == F(x)
Then(m, K(_)) == IF m.st # "ok" THEN m ELSE K(m)

\* Sequence helpers.
Last(q) == q[Len(q)]
Rep(c, k) == [j \in 1..k |-> c]
Min(x, y) == IF x < y THEN x ELSE y

RECURSIVE Pow2(_)
Pow2(k) == IF k = 0 THEN 1 ELSE 2 * Pow2(k - 1)

\* x >> k and the low k bits of x, for x >= 0.
Shr(x, k) == x \div Pow2(k)
LowBits(x, k) == x % Pow2(k)


(***************************************************************************)
(* The C `long` of the LP64 build: 64 bits, two's complement, held as four *)
(* 16-bit limbs (least significant first) so that the arithmetic keeps its *)
(* width.  Signed overflow is undefined behaviour: the operators return    *)
(* the wrapped value the machine instruction leaves together with a flag   *)
(* `ovf`, and the callers draw the outcome from the flag.                  *)
(***************************************************************************)
LimbBase == 65536

L64Zero == <<0, 0, 0, 0>>

\* v * k + d modulo 2^64, with the carry out of the top limb (0 <= k, d small).
L64MulAdd(v, k, d) ==
  LET t1 == v[1] * k + d
      t2 == v[2] * k + (t1 \div LimbBase)
      t3 == v[3] * k + (t2 \div LimbBase)
      t4 == v[4] * k + (t3 \div LimbBase)
  IN  [ v |-> << t1 % LimbBase, t2 % LimbBase, t3 % LimbBase, t4 % LimbBase >>,
        carry |-> t4 \div LimbBase ]

\* a + b modulo 2^64.
L64Add(a, b) ==
  LET t1 == a[1] + b[1]
      t2 == a[2] + b[2] + (t1 \div LimbBase)
      t3 == a[3] + b[3] + (t2 \div LimbBase)
      t4 == a[4] + b[4] + (t3 \div LimbBase)
  IN  << t1 % LimbBase, t2 % LimbBase, t3 % LimbBase, t4 % LimbBase >>

\* -v modulo 2^64.
L64Neg(v) ==
  L64Add([j \in 1..4 |-> LimbBase - 1 - v[j]], <<1, 0, 0, 0>>)

L64IsNeg(v) == v[4] >= LimbBase \div 2

L64Min == <<0, 0, 0, LimbBase \div 2>>

\* A small non-negative int as a long.
L64FromNat(k) == L64MulAdd(L64Zero, 0, k).v

\* Unsigned quotient and remainder by 10.
L64DivMod10(v) ==
  LET q4 == v[4] \div 10
      r4 == v[4] % 10
      q3 == (r4 * LimbBase + v[3]) \div 10
      r3 == (r4 * LimbBase + v[3]) % 10
      q2 == (r3 * LimbBase + v[2]) \div 10
      r2 == (r3 * LimbBase + v[2]) % 10
      q1 == (r2 * LimbBase + v[1]) \div 10
      r1 == (r2 * LimbBase + v[1]) % 10
  IN  [ q |-> <<q1, q2, q3, q4>>, r |-> r1 ]

\* The decimal digits (as characters) of v read as unsigned; <<>> for 0.
RECURSIVE L64Digits(_)
L64Digits(v) ==
  IF v = L64Zero THEN <<>>
  ELSE Let(L64DivMod10(v), LAMBDA dm : L64Digits(dm.q) \o << 48 + dm.r >>)

\* ostream << long, in decimal.
PrintLong(v) ==
  IF v = L64Zero THEN << 48 >>
  ELSE IF L64IsNeg(v) THEN << 45 >> \o L64Digits(L64Neg(v))
  ELSE L64Digits(v)

\* Whether |x| * 10 leaves the range of long, given m10 = |x| * 10 mod 2^64.
Mul10Overflows(neg, m10) ==
  m10.carry # 0 \/ (L64IsNeg(m10.v) /\ ~(neg /\ m10.v = L64Min))

L64Abs(x) == IF L64IsNeg(x) THEN L64Neg(x) ELSE x

\* Signed x * 10 + d (0 <= d <= 57): the wrapped result, and whether the
\* mathematical result left the range of long.
SMul10AddWrapped(x, d, w, mulOvf) ==
  [ v |-> w, ovf |-> mulOvf \/ (~L64IsNeg(x) /\ L64IsNeg(w)) ]

SMul10Add(x, d) ==
  SMul10AddWrapped(x, d, L64MulAdd(x, 10, d).v,
                   Mul10Overflows(L64IsNeg(x), L64MulAdd(L64Abs(x), 10, 0)))

\* The value of a long that fits a model integer (|v| < 2^30).
L64Fits(v) ==
  Let(L64Abs(v), LAMBDA mag : mag[4] = 0 /\ mag[3] = 0 /\ mag[2] < 16384)

L64ToInt(v) ==
  Let(L64Abs(v), LAMBDA mag :
        IF L64IsNeg(v) THEN 0 - (mag[2] * LimbBase + mag[1])
        ELSE mag[2] * LimbBase + mag[1])

(***************************************************************************)
(* The machine record m that the parsers thread:                           *)
(*   s, p   the input stream and the number of bytes consumed from it      *)
(*   o      the bytes written to the output sink so far                    *)
(*   st     "ok", or how the call ended: "invalid" (InvalidJSON thrown,    *)
(*          msg says which), "diverge" (a loop that never ends),           *)
(*          "abort" (the process is killed), "overrun" (a read past the    *)
(*          end of a string)                                               *)
(*   rv     the value the last call returned                               *)
(*   ev     the visitor invocations made so far                            *)
(*   u      the value a read of an uninitialised char yields               *)
(*   trap   whether an overflowing signed operation or an out-of-range     *)
(*          conversion traps (TRUE) or leaves the machine's result (FALSE) *)
(*   indentLevel   the static indentLevel of indent.cc (option -i)         *)
(*   hex    whether the sink's flags() have std::hex as their base          *)
(*   fill   the sink's fill character (not part of flags())                *)
(***************************************************************************)
Machine(s, p, u, trap, indentLevel) ==
  [ s |-> s, p |-> p, o |-> <<>>, st |-> "ok", msg |-> "", rv |-> 0,
    ev |-> <<>>, u |-> u, trap |-> trap, indentLevel |-> indentLevel,
    hex |-> FALSE, fill |-> Chr.sp ]

\* throw InvalidJSON(msg)
Throw(m, msg) == [m EXCEPT !.st = "invalid", !.msg = msg]

\* o << text
Put(m, text) == [m EXCEPT !.o = @ \o text]

\* istream::peek and istream::ignore
Peek(m) == IF m.p < Len(m.s) THEN m.s[m.p + 1] ELSE EOF
Ignore(m) == IF m.p < Len(m.s) THEN [m EXCEPT !.p = @ + 1] ELSE m

\* istream::get(char &c): at end of stream c keeps the value it had (prev).
Get(m, prev) ==
  IF m.p < Len(m.s) THEN [m EXCEPT !.p = @ + 1, !.rv = m.s[m.p + 1]]
  ELSE [m EXCEPT !.rv = prev]

RECURSIVE SkipSpacePos(_, _)
SkipSpacePos(s, p) ==
  IF p < Len(s) /\ isspace(s[p + 1]) THEN SkipSpacePos(s, p + 1) ELSE p

skipSpace(m) ==
  Let(SkipSpacePos(m.s, m.p), LAMBDA q :
        [m EXCEPT !.p = q, !.rv = IF q < Len(m.s) THEN m.s[q + 1] ELSE EOF])

expectAfterSpace(m, expected) ==
  Let(skipSpace(m), LAMBDA m1 :
        IF ToChar(m1.rv) # expected THEN Throw(m1, "expected char")
        ELSE [Ignore(m1) EXCEPT !.rv = ToChar(m1.rv)])

\* skipText: each iteration declares a fresh char c and get()s into it; at
\* end of stream the comparison reads c uninitialised.
RECURSIVE skipTextFrom(_, _, _)
skipTextFrom(m, text, i) ==
  IF i > Len(text) THEN m
  ELSE Let(Get(m, m.u), LAMBDA m1 :
             IF m1.rv # text[i] THEN Throw(m1, "expected literal")
             ELSE skipTextFrom(m1, text, i + 1))

\* skipText as it would be if it read one character more than the text has.
skipTextGreedy(m, text) == Ignore(skipTextFrom(m, text, 1))

skipText(m, text) == skipTextFrom(m, text, 1)

\* The switch of peekType on the character c that skipSpace returned.
TypeOf(c) ==
  CASE c = Chr.lbrace -> "Object"
    [] c = Chr.lbrack -> "Array"
    [] c = Chr.quote -> "String"
    [] c = Chr.minus -> "Number"
    [] c = Chr.t \/ c = Chr.f -> "Boolean"
    [] c = Chr.n -> "Null"
    [] c = EOF -> "Eof"
    [] OTHER -> IF c >= Chr.zero /\ c <= Chr.nine THEN "Number" ELSE "none"

peekType(m) ==
  Let(skipSpace(m), LAMBDA m1 :
        IF TypeOf(ToChar(m1.rv)) = "none" THEN Throw(m1, "unexpected token")
        ELSE [m1 EXCEPT !.rv = TypeOf(ToChar(m1.rv))])

\* The digit run parseInt's while loop consumes.
RECURSIVE DigitRunEnd(_, _)
DigitRunEnd(s, p) ==
  IF p < Len(s) /\ isdigit(s[p + 1]) THEN DigitRunEnd(s, p + 1) ELSE p

\* parseInt, up to the accumulation: the sign, and the digits the loop folds
\* into rv (none when the leading-zero branch is taken, which leaves rv 0).
parseIntDigits(m1, neg) ==
  IF Peek(m1) = Chr.zero
    THEN [Ignore(m1) EXCEPT !.rv = [neg |-> neg, digs |-> <<>>]]
  ELSE IF isdigit(Peek(m1))
    THEN Let(DigitRunEnd(m1.s, m1.p), LAMBDA q :
               [m1 EXCEPT !.p = q,
                          !.rv = [neg |-> neg,
                                  digs |-> SubSeq(m1.s, m1.p + 1, q)]])
  ELSE Throw(m1, "expected digit")

parseInt(m) ==
  Let(skipSpace(m), LAMBDA m0 :
        parseIntDigits(IF m0.rv = Chr.minus THEN Ignore(m0) ELSE m0,
                       m0.rv = Chr.minus))

\* rv = rv * 10 + c - '0' over the digits, in a long: the value, and whether
\* a step overflowed.
RECURSIVE AccLong(_, _)
AccLong(acc, digs) ==
  IF digs = <<>> THEN acc
  ELSE Let(L64MulAdd(acc.v, 10, Head(digs) - Chr.zero).v, LAMBDA sub :
             IF SMul10Add(acc.v, Head(digs)).ovf
               THEN AccLong([v |-> sub, ovf |-> TRUE], Tail(digs))
             ELSE AccLong([v |-> sub, ovf |-> acc.ovf], Tail(digs)))

\* parseInt<long>: rv * sign.
parseIntLong(m) ==
  Then(parseInt(m), LAMBDA m1 :
    Let(AccLong([v |-> L64Zero, ovf |-> FALSE], m1.rv.digs), LAMBDA acc :
      IF acc.ovf /\ m1.trap THEN [m1 EXCEPT !.st = "abort"]
      ELSE [m1 EXCEPT !.rv = [v |-> IF m1.rv.neg THEN L64Neg(acc.v) ELSE acc.v,
                              ovf |-> acc.ovf]]))

\* rv = rv * 10 + c - '0' over the digits, in a long double (64-bit
\* significand): exact below 2^64; `big` once the value has reached 2^64.
RECURSIVE AccLongDouble(_, _)
AccLongDouble(acc, digs) ==
  IF digs = <<>> THEN acc
  ELSE Let(L64MulAdd(acc.v, 10, Head(digs) - Chr.zero), LAMBDA step :
             IF step.carry # 0
               THEN AccLongDouble([v |-> step.v, big |-> TRUE], Tail(digs))
             ELSE AccLongDouble([v |-> step.v, big |-> acc.big], Tail(digs)))

\* parseNumber<long>: parseInt<long double>, converted to long on return.  A
\* value outside the range of long makes the conversion undefined: the x87
\* store leaves LONG_MIN, or the conversion traps.
InLongRange(acc, neg) ==
  ~acc.big /\ (~L64IsNeg(acc.v) \/ (neg /\ acc.v = L64Min))

parseNumberLong(m) ==
  Then(parseInt(m), LAMBDA m1 :
    Let(AccLongDouble([v |-> L64Zero, big |-> FALSE], m1.rv.digs), LAMBDA acc :
      IF InLongRange(acc, m1.rv.neg)
        THEN [m1 EXCEPT !.rv = IF m1.rv.neg THEN L64Neg(acc.v) ELSE acc.v]
      ELSE IF m1.trap THEN [m1 EXCEPT !.st = "abort"]
      ELSE [m1 EXCEPT !.rv = L64Min]))

\* x | y and x & y, for x, y >= 0.
RECURSIVE BitOr(_, _)
BitOr(x, y) ==
  IF x = 0 THEN y
  ELSE IF y = 0 THEN x
  ELSE (IF x % 2 = 1 \/ y % 2 = 1 THEN 1 ELSE 0) + 2 * BitOr(x \div 2, y \div 2)

RECURSIVE BitAnd(_, _)
BitAnd(x, y) ==
  IF x = 0 \/ y = 0 THEN 0
  ELSE (IF x % 2 = 1 /\ y % 2 = 1 THEN 1 ELSE 0) + 2 * BitAnd(x \div 2, y \div 2)

\* hexval: the digit's value, or -1 where the code throws.
hexval(c) ==
  IF c >= Chr.zero /\ c <= Chr.nine THEN c - Chr.zero
  ELSE IF c >= Chr.A /\ c <= Chr.F THEN c - Chr.A + 10
  ELSE IF c >= Chr.a /\ c <= Chr.f THEN c - Chr.a + 10
  ELSE 0 - 1

\* The loop over mask as it would be if it always stopped at the first mask.
UTF8ByteCountTwo(value, maskBits, byteCount) == byteCount

\* operator<<(ostream, UTF8): the bytes written for a code point.
RECURSIVE UTF8ByteCount(_, _, _)
UTF8ByteCount(value, maskBits, byteCount) ==
  IF value < Pow2(maskBits) THEN byteCount
  ELSE UTF8ByteCount(value, maskBits + 5, byteCount + 1)

RECURSIVE UTF8Tail(_, _)
UTF8Tail(value, byteCount) ==
  IF byteCount = 0 THEN <<>>
  ELSE << LowBits(Shr(value, 6 * (byteCount - 1)), 6) + 128 >>
       \o UTF8Tail(value, byteCount - 1)

UTF8Encode(code) ==
  IF code < 128 THEN << code >>
  ELSE Let(UTF8ByteCount(code, 11, 1), LAMBDA byteCount :
             << LowBits(BitOr(Shr(code, 6 * byteCount),
                              256 - Pow2(7 - byteCount)), 8) >>
             \o UTF8Tail(code, byteCount))

\* The four get()s of a \u escape: c keeps its last value once the stream
\* has ended, so hexval sees the previous character again.
RECURSIVE parseHex4(_, _, _, _)
parseHex4(m, c, i, codePoint) ==
  IF i = 4 THEN [m EXCEPT !.rv = codePoint]
  ELSE Let(Get(m, c), LAMBDA m1 :
             IF hexval(m1.rv) < 0 THEN Throw(m1, "not a hex char")
             ELSE parseHex4(m1, m1.rv, i + 1, codePoint * 16 + hexval(m1.rv)))

RECURSIVE parseStringLoop(_, _)

\* case '\\': the escaped character q, read into the same c.
parseStringEscape(m2, rv, q) ==
  CASE q = Chr.quote \/ q = Chr.bslash \/ q = Chr.slash ->
         parseStringLoop(m2, Append(rv, q))
    [] q = Chr.b -> parseStringLoop(m2, Append(rv, Chr.bs))
    [] q = Chr.f -> parseStringLoop(m2, Append(rv, Chr.ff))
    [] q = Chr.n -> parseStringLoop(m2, Append(rv, Chr.nl))
    [] q = Chr.r -> parseStringLoop(m2, Append(rv, Chr.cr))
    [] q = Chr.t -> parseStringLoop(m2, Append(rv, Chr.tab))
    [] q = Chr.u ->
         Then(parseHex4(m2, q, 0, 0), LAMBDA m3 :
                parseStringLoop(m3, rv \o UTF8Encode(m3.rv)))
    [] OTHER -> Throw(m2, "invalid quoted char")

\* The for(;;) of parseString, with rv the text accumulated so far.  Each
\* iteration declares a fresh char c; at end of stream get() leaves it
\* uninitialised, and the switch reads it: a quote returns, and any other
\* value is appended and the loop comes round again with the stream still
\* ended, for ever.
parseStringLoop(m, rv) ==
  IF m.p >= Len(m.s)
    THEN IF m.u = Chr.quote THEN [m EXCEPT !.rv = rv]
         ELSE [m EXCEPT !.st = "diverge"]
  ELSE
    Let(Get(m, m.u), LAMBDA m1 :
      IF m1.rv = Chr.quote THEN [m1 EXCEPT !.rv = rv]
      ELSE IF m1.rv # Chr.bslash THEN parseStringLoop(m1, Append(rv, m1.rv))
      ELSE Let(Get(m1, m1.rv), LAMBDA m2 : parseStringEscape(m2, rv, m2.rv)))

parseString(m) ==
  Then(expectAfterSpace(m, Chr.quote), LAMBDA m1 : parseStringLoop(m1, <<>>))

parseBooleanText(m1, c) ==
  IF c = Chr.t
    THEN Then(skipText(m1, <<Chr.t, Chr.r, Chr.u, Chr.e>>),
              LAMBDA m2 : [m2 EXCEPT !.rv = TRUE])
  ELSE IF c = Chr.f
    THEN Then(skipText(m1, <<Chr.f, Chr.a, Chr.l, Chr.s, Chr.e>>),
              LAMBDA m2 : [m2 EXCEPT !.rv = FALSE])
  ELSE Throw(m1, "expected 'true' or 'false'")

parseBoolean(m) ==
  Let(skipSpace(m), LAMBDA m1 : parseBooleanText(m1, ToChar(m1.rv)))

parseNull(m) == skipText(skipSpace(m), <<Chr.n, Chr.u, Chr.l, Chr.l>>)


(***************************************************************************)
(* The exact-decimal Number: struct Number { long mantissa; long exponent }*)
(* with its parser parseNumber and its writer operator<<(AsJSON<Number>).  *)
(* rv is [mantissa, exponent, ovf]; ovf records that a signed operation on *)
(* the way overflowed and the build let it wrap.                           *)
(***************************************************************************)
MinusOne == L64Neg(L64FromNat(1))

\* The while loop over the digits of the fraction:
\* rv.exponent -= 1; rv.mantissa *= 10; rv.mantissa += c - '0'.
RECURSIVE FractionLoop(_)
FractionLoop(m) ==
  IF ~isdigit(Peek(m)) THEN m
  ELSE Let(SMul10Add(m.rv.mantissa, Peek(m) - Chr.zero), LAMBDA step :
         IF step.ovf /\ m.trap THEN [m EXCEPT !.st = "abort"]
         ELSE FractionLoop(
                [Ignore(m) EXCEPT !.rv = [mantissa |-> step.v,
                                          exponent |-> L64Add(m.rv.exponent, MinusOne),
                                          ovf |-> m.rv.ovf \/ step.ovf]]))

\* if (l.peek() == '.') { ... }
parseFraction(m) ==
  IF Peek(m) = Chr.dot THEN FractionLoop(Ignore(m)) ELSE m

\* rv.exponent += sign * parseInt<In, long>(l), num being rv before it.
ExponentValue(m1, num, sign) ==
  Then(parseIntLong(m1), LAMBDA m2 :
    [m2 EXCEPT !.rv = [mantissa |-> num.mantissa,
                       exponent |-> L64Add(num.exponent,
                                           IF sign < 0 THEN L64Neg(m2.rv.v)
                                           ELSE m2.rv.v),
                       ovf |-> num.ovf \/ m2.rv.ovf]])

\* The sign of the exponent, c being the character after the 'e'.
ExponentSign(m1, c) ==
  IF c = Chr.plus THEN ExponentValue(Ignore(m1), m1.rv, 1)
  ELSE IF c = Chr.minus THEN ExponentValue(Ignore(m1), m1.rv, 0 - 1)
  ELSE IF isdigit(c) THEN ExponentValue(m1, m1.rv, 1)
  ELSE Throw(m1, "expected sign or numeric after exponent")

\* if (l.peek() == 'e' || l.peek() == 'E') { ... }
parseExponent(m) ==
  IF Peek(m) = Chr.e \/ Peek(m) = Chr.E
    THEN Let(Ignore(m), LAMBDA m1 : ExponentSign(m1, Peek(m1)))
  ELSE m

parseNumber(m) ==
  Then(parseIntLong(m), LAMBDA m1 :
    Then(parseFraction([m1 EXCEPT !.rv = [mantissa |-> m1.rv.v,
                                          exponent |-> L64Zero,
                                          ovf |-> m1.rv.ovf]]),
         LAMBDA m2 : parseExponent(m2)))

\* os << mantissa; if (exponent) os << "e" << exponent
printNumber(num) ==
  PrintLong(num.mantissa)
  \o (IF num.exponent # L64Zero THEN <<Chr.e>> \o PrintLong(num.exponent)
      ELSE <<>>)


(***************************************************************************)
(* operator<<(ostream, Escape): the escaper indent.cc writes strings and   *)
(* field names with.  It writes into the sink as it goes.                  *)
(***************************************************************************)
HexDigit(d) == IF d < 10 THEN Chr.zero + d ELSE Chr.a + (d - 10)

\* ostream << std::hex << v
RECURSIVE HexDigits(_)
HexDigits(v) ==
  IF v < 16 THEN << HexDigit(v) >>
  ELSE HexDigits(v \div 16) \o << HexDigit(v % 16) >>

\* ostream << std::hex << std::setfill('0') << std::setw(width) << v
HexPadded(v, width) ==
  Let(HexDigits(v), LAMBDA d :
        IF Len(d) >= width THEN d ELSE Rep(Chr.zero, width - Len(d)) \o d)

\* o << std::hex, and o << std::hex << std::setfill('0'): what the
\* manipulators leave in the sink.  (setw lasts for the one value written
\* after it, which HexPadded writes.)
SetHex(m) == [m EXCEPT !.hex = TRUE]
SetHexFill(m) == [m EXCEPT !.hex = TRUE, !.fill = Chr.zero]

\* ostream << v for a long v when the sink's base is std::hex: the 64 bits
\* as an unsigned number, without leading zeros.
RECURSIVE DropZeros(_)
DropZeros(d) ==
  IF Len(d) > 1 /\ Head(d) = Chr.zero THEN DropZeros(Tail(d)) ELSE d

PrintLongHex(v) ==
  DropZeros(HexPadded(v[4], 4) \o HexPadded(v[3], 4) \o HexPadded(v[2], 4)
            \o HexPadded(v[1], 4))

\* ostream << v for a long v, in the base the sink has.
PrintLongOn(m, v) == IF m.hex THEN PrintLongHex(v) ELSE PrintLong(v)

\* The lead byte's run of leading one bits (count) and what is left of the
\* byte once they are cleared (v): the for loop over mask.
RECURSIVE LeadBits(_, _, _)
LeadBits(v, mask, count) ==
  IF mask = 0 \/ BitAnd(mask, v) = 0 THEN [v |-> v, count |-> count]
  ELSE LeadBits(v - mask, mask \div 2, count + 1)

\* *i on the string's iterator: the byte, or the terminating NUL that
\* std::string keeps at end().
ByteAt(value, i) == IF i <= Len(value) THEN value[i] ELSE 0

\* while (--count): fold the continuation bytes into v.  rv is <<v, next i>>,
\* or st is "invalid".
RECURSIVE EscapeFold(_, _, _, _, _)
EscapeFold(m, value, i, count, v) ==
  IF count - 1 = 0 THEN [m EXCEPT !.rv = <<v, i>>]
  ELSE IF BitAnd(ByteAt(value, i), 192) # 128
    THEN Throw(m, "illegal character in multibyte sequence")
  ELSE EscapeFold(m, value, i + 1, count - 1,
                  v * 64 + BitAnd(ByteAt(value, i), 63))

RECURSIVE EscapeFrom(_, _, _)
\* The body of the for loop as it would be if every byte were written as it
\* is.
EscapeByteRaw(m, value, i, c) == EscapeFrom(Put(m, <<c>>), value, i + 1)

\* The body of the for loop over the string, for the byte c at i.
EscapeByte(m, value, i, c) ==
  CASE c = Chr.bs -> EscapeFrom(Put(m, <<Chr.bslash, Chr.b>>), value, i + 1)
    [] c = Chr.ff -> EscapeFrom(Put(m, <<Chr.bslash, Chr.f>>), value, i + 1)
    [] c = Chr.nl -> EscapeFrom(Put(m, <<Chr.bslash, Chr.n>>), value, i + 1)
    [] c = Chr.quote ->
         EscapeFrom(Put(m, <<Chr.bslash, Chr.quote>>), value, i + 1)
    [] c = Chr.bslash ->
         EscapeFrom(Put(m, <<Chr.bslash, Chr.bslash>>), value, i + 1)
    [] c = Chr.cr -> EscapeFrom(Put(m, <<Chr.bslash, Chr.r>>), value, i + 1)
    [] c = Chr.tab -> EscapeFrom(Put(m, <<Chr.bslash, Chr.t>>), value, i + 1)
    [] OTHER ->
         IF c < 32
           THEN EscapeFrom(Put(SetHex(m), <<Chr.bslash, Chr.u>> \o HexDigits(c)),
                           value, i + 1)
         ELSE IF BitAnd(c, 128) # 0
           THEN Let(LeadBits(c, 128, 0), LAMBDA lb :
                  Then(EscapeFold(m, value, i + 1, lb.count, lb.v), LAMBDA m1 :
                    EscapeFrom(Put(SetHexFill(m1), <<Chr.bslash, Chr.u>>
                                                   \o HexPadded(m1.rv[1], 4)),
                               value, m1.rv[2])))
         ELSE EscapeFrom(Put(m, <<c>>), value, i + 1)

EscapeFrom(m, value, i) ==
  IF i > Len(value) THEN m ELSE EscapeByte(m, value, i, value[i])

\* operator<<(ostream, Escape) as it would be without `o.flags(flags)`.
EscapeNoRestore(m, value) == EscapeFrom(m, value, 1)

\* auto flags(o.flags()); the loop; o.flags(flags).  A throw inside the loop
\* leaves the flags as the loop set them.
Escape(m, value) ==
  Let(EscapeFrom(m, value, 1), LAMBDA m1 :
        IF m1.st = "ok" THEN [m1 EXCEPT !.hex = m.hex] ELSE m1)


(***************************************************************************)
(* escape(std::string) of json.h: the escaper as a function from string to *)
(* string.  m.o is its ostringstream.  Its test of a continuation byte is  *)
(* `c & 0xc0 != 0x80`, which C++ reads as c & (0xc0 != 0x80), that is      *)
(* c & 1.  A string that ends inside a multi-byte sequence takes the       *)
(* iterator past end(): st becomes "overrun" (the loop goes on reading the *)
(* memory after the string, which nothing here describes).                 *)
(***************************************************************************)
\* while (--count): fold the continuation bytes into v.  rv is <<v, next i>>.
RECURSIVE escapeFold(_, _, _, _, _)
escapeFold(m, value, i, count, v) ==
  IF count - 1 = 0 THEN [m EXCEPT !.rv = <<v, i>>]
  ELSE IF i > Len(value) + 1 THEN [m EXCEPT !.st = "overrun"]
  ELSE IF BitAnd(ByteAt(value, i), 1) # 0
    THEN Throw(m, "illegal character in multibyte sequence")
  ELSE escapeFold(m, value, i + 1, count - 1,
                  v * 64 + BitAnd(ByteAt(value, i), 63))

RECURSIVE escapeFrom(_, _, _)

\* The body of the for loop over the string, for the byte c at i.
escapeByte(m, value, i, c) ==
  CASE c = Chr.bs -> escapeFrom(Put(m, <<Chr.bslash, Chr.b>>), value, i + 1)
    [] c = Chr.ff -> escapeFrom(Put(m, <<Chr.bslash, Chr.f>>), value, i + 1)
    [] c = Chr.nl -> escapeFrom(Put(m, <<Chr.bslash, Chr.n>>), value, i + 1)
    [] c = Chr.quote ->
         escapeFrom(Put(m, <<Chr.bslash, Chr.quote>>), value, i + 1)
    [] c = Chr.bslash ->
         escapeFrom(Put(m, <<Chr.bslash, Chr.bslash>>), value, i + 1)
    [] c = Chr.cr -> escapeFrom(Put(m, <<Chr.bslash, Chr.r>>), value, i + 1)
    [] c = Chr.tab -> escapeFrom(Put(m, <<Chr.bslash, Chr.t>>), value, i + 1)
    [] OTHER ->
         IF c < 32
           THEN escapeFrom(Put(m, <<Chr.bslash, Chr.u>> \o HexDigits(c)),
                           value, i + 1)
         ELSE IF BitAnd(c, 128) # 0
           THEN Let(LeadBits(c, 128, 0), LAMBDA lb :
                  Then(escapeFold(m, value, i + 1, lb.count, lb.v), LAMBDA m1 :
                    escapeFrom(Put(m1, <<Chr.bslash, Chr.u>>
                                       \o HexPadded(m1.rv[1], 4)),
                               value, m1.rv[2])))
         ELSE escapeFrom(Put(m, <<c>>), value, i + 1)

\* for (auto i = in.begin(); i != in.end();)
escapeFrom(m, value, i) ==
  IF i = Len(value) + 1 THEN m
  ELSE IF i > Len(value) + 1 THEN [m EXCEPT !.st = "overrun"]
  ELSE escapeByte(m, value, i, value[i])

escape(m, value) == escapeFrom(m, value, 1)


(***************************************************************************)
(* indent.cc: the pretty printer.  parseArray and parseObject of json.h    *)
(* are modelled as indent.cc instantiates them, with the lambdas of        *)
(* prettyArray and prettyObject as their visitors; eleCount is the counter *)
(* the lambda captures by reference.                                       *)
(***************************************************************************)
maxindent == 8192

\* pad as it would be without the limit of maxindent spaces.
padUncapped(m, indent) == Rep(Chr.sp, m.indentLevel * indent)

pad(m, indent) == Rep(Chr.sp, Min(m.indentLevel * indent, maxindent))

NullText == <<Chr.n, Chr.u, Chr.l, Chr.l>>
TrueText == <<Chr.t, Chr.r, Chr.u, Chr.e>>
FalseText == <<Chr.f, Chr.a, Chr.l, Chr.s, Chr.e>>

\* o << "\"" << Escape(parseString(i)) << "\"": the operands of << are
\* sequenced left to right (-std=c++17), so the opening quote is written
\* before the string is parsed.
prettyString(m) ==
  Then(parseString(Put(m, <<Chr.quote>>)), LAMBDA m1 :
    Then(Escape(m1, m1.rv), LAMBDA m2 : Put(m2, <<Chr.quote>>)))

prettyNull(m) == Then(parseNull(m), LAMBDA m1 : Put(m1, NullText))

prettyNumber(m) ==
  Then(parseNumberLong(m), LAMBDA m1 : Put(m1, PrintLongOn(m1, m1.rv)))

prettyBoolean(m) ==
  Then(parseBoolean(m), LAMBDA m1 :
         Put(m1, IF m1.rv THEN TrueText ELSE FalseText))

RECURSIVE pretty(_, _)
RECURSIVE parseArrayLoop(_, _, _)
RECURSIVE parseObjectLoop(_, _, _)

\* eleCount++ ? "," : "" as it would be if the comma were written before
\* every element, the first included.
SeparatorAlways(eleCount) == <<Chr.comma>>

\* if (eleCount++ != 0) o << ","
Separator(eleCount) == IF eleCount # 0 THEN <<Chr.comma>> ELSE <<>>

\* The lambda of prettyArray.
prettyArrayVisitor(m, indent, eleCount) ==
  pretty([Put(m, Separator(eleCount) \o <<Chr.nl>> \o pad(m, indent + 1))
            EXCEPT !.ev = Append(@, [k |-> "element", at |-> m.p])],
         indent + 1)

\* The lambda of prettyObject as it would be if it wrote only the first
\* field of an object and parsed the others without writing them.
prettyObjectVisitorFirstOnly(m, idx, indent, eleCount) ==
  IF eleCount = 0
    THEN Then(Escape([Put(m, <<Chr.nl>> \o pad(m, indent + 1) \o <<Chr.quote>>)
                        EXCEPT !.ev = Append(@, [k |-> "field", name |-> idx])],
                     idx),
              LAMBDA m2 : pretty(Put(m2, <<Chr.quote, Chr.colon, Chr.sp>>),
                                 indent + 1))
  ELSE Then(pretty([m EXCEPT !.ev = Append(@, [k |-> "field", name |-> idx])],
                   indent + 1),
            LAMBDA m2 : [m2 EXCEPT !.o = m.o])

\* The lambda of prettyObject.
prettyObjectVisitor(m, idx, indent, eleCount) ==
  Then(Escape([Put(m, Separator(eleCount) \o <<Chr.nl>> \o pad(m, indent + 1)
                      \o <<Chr.quote>>)
                 EXCEPT !.ev = Append(@, [k |-> "field", name |-> idx])],
              idx),
       LAMBDA m2 : pretty(Put(m2, <<Chr.quote, Chr.colon, Chr.sp>>), indent + 1))

\* The switch at the end of an iteration of parseArray's loop as it would be
\* if every character but a comma ended the array.
parseArrayNextLenient(m2, indent, eleCount, c) ==
  IF c = Chr.comma THEN parseArrayLoop(Ignore(m2), indent, eleCount + 1)
  ELSE [Ignore(m2) EXCEPT !.rv = eleCount + 1]

\* The switch at the end of an iteration of parseArray's loop.
parseArrayNext(m2, indent, eleCount, c) ==
  IF c = Chr.rbrack THEN [Ignore(m2) EXCEPT !.rv = eleCount + 1]
  ELSE IF c = Chr.comma THEN parseArrayLoop(Ignore(m2), indent, eleCount + 1)
  ELSE Throw(m2, "expected ']' or ','")

\* The for loop of parseArray; rv is the visitor's eleCount on return.
parseArrayLoop(m, indent, eleCount) ==
  Then(prettyArrayVisitor(skipSpace(m), indent, eleCount), LAMBDA m1 :
    Let(skipSpace(m1), LAMBDA m2 :
      parseArrayNext(m2, indent, eleCount, ToChar(m2.rv))))

parseArray(m, indent) ==
  Then(expectAfterSpace(m, Chr.lbrack), LAMBDA m1 :
    Let(skipSpace(m1), LAMBDA m2 :
      IF ToChar(m2.rv) = Chr.rbrack THEN [Ignore(m2) EXCEPT !.rv = 0]
      ELSE parseArrayLoop(m2, indent, 0)))

\* case '"' of parseObject as it would be if the visitor were called before
\* the colon is looked for.
parseFieldVisitorFirst(m1, indent, eleCount) ==
  Then(parseString(m1), LAMBDA m2 :
    Then(expectAfterSpace([m2 EXCEPT !.ev = Append(@, [k |-> "field",
                                                      name |-> m2.rv])],
                          Chr.colon), LAMBDA m3 :
      Then(prettyObjectVisitor(m3, m2.rv, indent, eleCount), LAMBDA m4 :
        parseObjectLoop(m4, indent, eleCount + 1))))

\* case '"' of parseObject: the field's name, the colon, the visitor.
parseField(m1, indent, eleCount) ==
  Then(parseString(m1), LAMBDA m2 :
    Then(expectAfterSpace(m2, Chr.colon), LAMBDA m3 :
      Then(prettyObjectVisitor(m3, m2.rv, indent, eleCount), LAMBDA m4 :
        parseObjectLoop(m4, indent, eleCount + 1))))

\* The switch of parseObject on the character c that skipSpace returned.
parseObjectNext(m1, indent, eleCount, c) ==
  IF c = Chr.quote THEN parseField(m1, indent, eleCount)
  ELSE IF c = Chr.rbrace THEN [Ignore(m1) EXCEPT !.rv = eleCount]
  ELSE IF c = Chr.comma THEN parseObjectLoop(Ignore(m1), indent, eleCount)
  ELSE Throw(m1, "unexpected character parsing object")

\* The for(;;) of parseObject; rv is the visitor's eleCount on return.
parseObjectLoop(m, indent, eleCount) ==
  Let(skipSpace(m), LAMBDA m1 :
        parseObjectNext(m1, indent, eleCount, ToChar(m1.rv)))

parseObject(m, indent) ==
  Then(expectAfterSpace(m, Chr.lbrace), LAMBDA m1 :
         parseObjectLoop(m1, indent, 0))

\* if (eleCount != 0) o << "\n" << pad(indent)
Closing(m, indent, eleCount) ==
  IF eleCount # 0 THEN <<Chr.nl>> \o pad(m, indent) ELSE <<>>

prettyArray(m, indent) ==
  Then(parseArray(Put(m, <<Chr.lbrack>>), indent), LAMBDA m1 :
         Put(m1, Closing(m, indent, m1.rv) \o <<Chr.rbrack>>))

prettyObject(m, indent) ==
  Then(parseObject(Put(m, <<Chr.lbrace>>), indent), LAMBDA m1 :
         Put(m1, Closing(m, indent, m1.rv) \o <<Chr.rbrace>>))

\* The switch of pretty on the type peekType returned.
prettyValue(m1, indent, type) ==
  CASE type = "Array" -> prettyArray(m1, indent)
    [] type = "Object" -> prettyObject(m1, indent)
    [] type = "String" -> prettyString(m1)
    [] type = "Number" -> prettyNumber(m1)
    [] type = "Boolean" -> prettyBoolean(m1)
    [] type = "Null" -> prettyNull(m1)
    [] type = "Eof" -> m1

pretty(m, indent) ==
  Then(peekType(m), LAMBDA m1 : prettyValue(m1, indent, m1.rv))


(***************************************************************************)
(* indent.cc: indent() and main().                                         *)
(***************************************************************************)
bom == <<239, 187, 191>>

\* in.get(s, sizeof s): up to three bytes, stopping before a newline.
RECURSIVE GetLineEnd(_, _, _)
GetLineEnd(s, p, n) ==
  IF n = 0 \/ p >= Len(s) \/ s[p + 1] = Chr.nl THEN p
  ELSE GetLineEnd(s, p + 1, n - 1)

\* The try block of indent.
indentTry(m1) ==
  Let(pretty(m1, 0), LAMBDA m2 :
        IF m2.st = "ok" THEN Put(m2, <<Chr.nl>>) ELSE m2)

\* The bytes in.get(s, sizeof s) consumed, from p up to q.
indentBOM(m, q) ==
  IF SubSeq(m.s, m.p + 1, q) # bom
    THEN [m EXCEPT !.p = q, !.st = "uncaught", !.msg = "invalid BOM/JSON"]
  ELSE indentTry([m EXCEPT !.p = q])

\* indent(in, out).  st of the result: "ok" (returned true), "invalid"
\* (InvalidJSON caught, diagnostic written, returned false), "uncaught" (an
\* InvalidJSON thrown outside the try block: std::terminate), "abort",
\* "diverge".
indent(m) ==
  IF Peek(m) = bom[1] THEN indentBOM(m, GetLineEnd(m.s, m.p, Len(bom)))
  ELSE indentTry(m)

VARIABLES
  argv,         \* the operands left after getopt: [kind, data]
  argi,         \* the loop index of main, as an index into argv
  good,         \* main's good
  indentLevel,  \* the static indentLevel (option -i)
  cin,          \* the bytes of standard input
  cinPos,       \* how many of them have been consumed
  out,          \* the bytes written to standard output
  diag,         \* the lines written to cerr and clog
  pc,           \* "main", "ret" (the loop is over), "done", "aborted", "diverged"
  status,       \* the exit status: -1 while running, 134 when killed by abort()
  log,          \* one record per call of indent: its operand and its result
  pass,         \* 1, or 2 when the program is run again on its own output
  prevOut,      \* the output of the first run, in pass 2
  uninit,       \* what a read of an uninitialised char yields in this build
  trap          \* whether signed overflow traps in this build

vars == << argv, argi, good, indentLevel, cin, cinPos, out, diag, pc, status,
           log, pass, prevOut, uninit, trap >>

\* The values an uninitialised char may hold when it is read.
Uninit == {Chr.quote, Chr.l, Chr.e, 0}

\* What main does with the result m of a call of indent on operand arg.
AfterIndent(arg, m) ==
  /\ log' = Append(log, [arg |-> arg, m |-> m])
  /\ out' = out \o m.o
  /\ IF m.st = "ok" \/ m.st = "invalid"
       THEN /\ good' = (good /\ m.st = "ok")
            /\ diag' = IF m.st = "invalid"
                         THEN Append(diag, [line |-> "invalid JSON", msg |-> m.msg])
                         ELSE diag
            /\ UNCHANGED << pc, status >>
     ELSE /\ pc' = IF m.st = "diverge" THEN "diverged" ELSE "aborted"
          /\ status' = IF m.st = "diverge" THEN status ELSE 134
          /\ diag' = IF m.st = "uncaught"
                       THEN Append(diag, [line |-> "terminate", msg |-> m.msg])
                       ELSE diag
          /\ UNCHANGED good

\* cout at a call of indent: its flags and fill character are what the calls
\* made before (calls) left.
OnCout(m, calls) ==
  IF calls = <<>> THEN m
  ELSE [m EXCEPT !.hex = calls[Len(calls)].m.hex,
                 !.fill = calls[Len(calls)].m.fill]

\* One iteration of the for loop on an operand that opens:
\* good = good && indent(inFile, cout).
FileOperand ==
  /\ pc = "main" /\ argi <= Len(argv) /\ argv[argi].kind = "file"
  /\ IF good
       THEN AfterIndent(argi, indent(OnCout(Machine(argv[argi].data, 0, uninit,
                                                    trap, indentLevel), log)))
       ELSE UNCHANGED << good, out, diag, pc, status, log >>
  /\ argi' = argi + 1
  /\ UNCHANGED << argv, indentLevel, cin, cinPos, pass, prevOut, uninit, trap >>

\* One iteration on an operand that does not open: a line on clog.
MissingOperand ==
  /\ pc = "main" /\ argi <= Len(argv) /\ argv[argi].kind = "missing"
  /\ diag' = Append(diag, [line |-> "failed to open", msg |-> ""])
  /\ argi' = argi + 1
  /\ UNCHANGED << argv, good, indentLevel, cin, cinPos, out, pc, status, log,
                  pass, prevOut, uninit, trap >>

\* One iteration on the operand "-": good = good && indent(cin, cout).
AfterIndentCin(arg, m) == AfterIndent(arg, m) /\ cinPos' = m.p

StdinOperand ==
  /\ pc = "main" /\ argi <= Len(argv) /\ argv[argi].kind = "stdin"
  /\ IF good
       THEN AfterIndentCin(argi, indent(OnCout(Machine(cin, cinPos, uninit, trap,
                                                       indentLevel), log)))
       ELSE UNCHANGED << good, out, diag, pc, status, log, cinPos >>
  /\ argi' = argi + 1
  /\ UNCHANGED << argv, indentLevel, cin, pass, prevOut, uninit, trap >>

\* What main does with the result m of the call of indent it makes when
\* there is no operand.
AfterIndentOnly(m) ==
  /\ log' = Append(log, [arg |-> 0, m |-> m])
  /\ out' = out \o m.o
  /\ cinPos' = m.p
  /\ good' = IF m.st = "ok" \/ m.st = "invalid" THEN m.st = "ok" ELSE good
  /\ diag' = CASE m.st = "invalid" ->
                    Append(diag, [line |-> "invalid JSON", msg |-> m.msg])
               [] m.st = "uncaught" ->
                    Append(diag, [line |-> "terminate", msg |-> m.msg])
               [] OTHER -> diag
  /\ pc' = CASE m.st = "diverge" -> "diverged"
             [] m.st \in {"abort", "uncaught"} -> "aborted"
             [] OTHER -> "ret"
  /\ status' = IF m.st \in {"abort", "uncaught"} THEN 134 ELSE status

\* After the loop, with no operand: good = indent(cin, cout).
NoOperands ==
  /\ pc = "main" /\ Len(argv) = 0
  /\ AfterIndentOnly(indent(Machine(cin, cinPos, uninit, trap, indentLevel)))
  /\ UNCHANGED << argv, argi, indentLevel, cin, pass, prevOut, uninit, trap >>

\* The loop of main is over.
LoopOver ==
  IF Len(argv) = 0 THEN pc = "ret" ELSE pc = "main" /\ argi > Len(argv)

\* return good ? 0 : 1
Return ==
  /\ LoopOver
  /\ pc' = "done"
  /\ status' = IF good THEN 0 ELSE 1
  /\ UNCHANGED << argv, argi, good, indentLevel, cin, cinPos, out, diag, log,
                  pass, prevOut, uninit, trap >>

\* test.sh: the output of a run that exited 0 is fed to a second run of
\* jdent on standard input, and the two texts are compared.
Rerun ==
  /\ pc = "done" /\ pass = 1 /\ status = 0
  /\ pass' = 2
  /\ prevOut' = out
  /\ cin' = out /\ cinPos' = 0
  /\ argv' = <<>> /\ argi' = 1
  /\ good' = TRUE /\ out' = <<>> /\ pc' = "main" /\ status' = 0 - 1
  /\ UNCHANGED << indentLevel, diag, log, uninit, trap >>


(***************************************************************************)
(* The inputs.  Documents are built from the tokens of the grammar the     *)
(* parsers read, and cut short at every position.                          *)
(***************************************************************************)
MaxOperands == 2
MaxElems == 2
MaxWraps == 1

SeqsUpTo(S, n) == UNION { [1..k -> S] : k \in 0..n }

RECURSIVE Join(_, _)
Join(parts, sep) ==
  IF parts = <<>> THEN <<>>
  ELSE IF Len(parts) = 1 THEN parts[1]
  ELSE parts[1] \o sep \o Join(Tail(parts), sep)

Quoted(body) == <<Chr.quote>> \o body \o <<Chr.quote>>

ArrayText(elems) == <<Chr.lbrack>> \o Join(elems, <<Chr.comma>>) \o <<Chr.rbrack>>

FieldText(fld) == Quoted(fld[1]) \o <<Chr.colon>> \o fld[2]

ObjectText(flds) ==
  <<Chr.lbrace>>
  \o Join([j \in 1..Len(flds) |-> FieldText(flds[j])], <<Chr.comma>>)
  \o <<Chr.rbrace>>

Prefixes(d) == { SubSeq(d, 1, k) : k \in 0..Len(d) }

\* Field names, and the scalars placed inside containers.
Names == { <<Chr.a>>, <<Chr.b>> }
InnerScalars == { <<Chr.zero + 1>>, Quoted(<<Chr.a>>) }

\* Scalars, well-formed and not, on their own and as a single element.
Scalars ==
  { <<Chr.zero + 1>>, <<Chr.zero>>, <<Chr.zero, Chr.zero + 1>>,
    <<Chr.minus, Chr.zero, Chr.zero + 1, Chr.zero + 2>>,
    <<Chr.minus, Chr.zero>>, <<Chr.minus, Chr.zero + 1, Chr.zero + 2>>,
    Quoted(<<Chr.a>>), Quoted(<<>>),
    Quoted(<<Chr.a, Chr.bslash, Chr.t, Chr.b>>),
    Quoted(<<Chr.a, Chr.tab, Chr.b>>),
    Quoted(<<Chr.bslash, Chr.u, Chr.zero, Chr.zero, Chr.zero, Chr.zero + 1>>),
    Quoted(<<Chr.bslash, Chr.u, Chr.zero, Chr.zero, Chr.e, Chr.nine>>),
    Quoted(<<Chr.bslash, Chr.quote>>),
    Quoted(<<Chr.bslash, Chr.x>>),
    TrueText, FalseText, NullText, <<Chr.x>> }

FlatDocs ==
  { ArrayText(es) : es \in SeqsUpTo(InnerScalars, MaxElems) }
  \cup { ObjectText(fs) : fs \in SeqsUpTo(Names \X InnerScalars, MaxElems) }

Wraps(v) ==
  { ArrayText(<<v>>), ObjectText(<< <<<<Chr.a>>, v>> >>),
    ArrayText(<< <<Chr.zero + 1>>, v, <<Chr.zero + 1>> >>) }

RECURSIVE Wrapped(_, _)
Wrapped(S, k) ==
  IF k = 0 THEN S
  ELSE S \cup UNION { Wraps(v) : v \in Wrapped(S, k - 1) }

WholeDocs == Wrapped(FlatDocs \cup Scalars, MaxWraps)

RenderDocs == UNION { Prefixes(d) : d \in WholeDocs }

\* The files and the standard input of the runs of main.
MainDocs ==
  { ArrayText(<< <<Chr.zero + 1>> >>),
    <<Chr.lbrack, Chr.zero + 1, Chr.comma, Chr.rbrack>>,
    bom \o <<Chr.zero + 1>>,
    <<bom[1], Chr.zero + 1>>,
    <<Chr.quote, Chr.a>>,
    <<>> }

CinDocs ==
  { <<Chr.zero + 1, Chr.sp, Chr.lbrack, Chr.zero + 2>>,
    <<Chr.lbrace, Chr.rbrace, Chr.sp, Chr.zero + 1>> }

Operands ==
  { [kind |-> "file", data |-> d] : d \in MainDocs }
  \cup { [kind |-> "missing", data |-> <<>>], [kind |-> "stdin", data |-> <<>>] }

indentLevelDefault == 2
IndentLevels == { indentLevelDefault, 1 }

\* The state main starts its operand loop in, getopt done.
InitMain ==
  /\ argi = 1 /\ good = TRUE /\ cinPos = 0 /\ out = <<>> /\ diag = <<>>
  /\ pc = "main" /\ status = 0 - 1 /\ log = <<>> /\ pass = 1 /\ prevOut = <<>>

Init ==
  /\ InitMain
  /\ argv \in SeqsUpTo(Operands, MaxOperands)
  /\ cin \in CinDocs
  /\ indentLevel = indentLevelDefault
  /\ uninit \in Uninit
  /\ trap \in BOOLEAN

Next ==
  \/ FileOperand
  \/ MissingOperand
  \/ StdinOperand
  \/ NoOperands
  \/ Return

Spec == Init /\ [][Next]_vars

\* One document on standard input, rendered, and its rendering rendered again.
InitRender ==
  /\ InitMain
  /\ argv = <<>>
  /\ cin \in RenderDocs
  /\ indentLevel \in IndentLevels
  /\ uninit \in Uninit
  /\ trap = FALSE

NextRender ==
  \/ NoOperands
  \/ Return
  \/ Rerun

SpecRender == InitRender /\ [][NextRender]_vars

\* Documents for the sink's formatting state: strings and field names that
\* need no escape, a \u escape of a control character, a \u escape of a
\* two-byte character, or that fail after a \u escape has been written;
\* numbers whose decimal and hexadecimal texts differ; and both together.
FormatStrings == { <<Chr.a>>, <<1>>, <<195, 169>>, <<1, 195, 40>> }
FormatNumbers ==
  { <<Chr.zero + 1, Chr.zero>>, <<Chr.minus, Chr.zero + 2, Chr.zero + 5, Chr.zero + 5>> }
FormatDocs ==
  { Quoted(b) : b \in FormatStrings }
  \cup FormatNumbers
  \cup { ArrayText(<< Quoted(b), n >>) : b \in FormatStrings, n \in FormatNumbers }
  \cup { ObjectText(<< <<b, n>> >>) : b \in FormatStrings, n \in FormatNumbers }

\* Runs of main on such files, or on one such document on standard input.
InitFormat ==
  /\ InitMain
  /\ argv \in SeqsUpTo({ [kind |-> "file", data |-> d] : d \in FormatDocs },
                       MaxOperands)
  /\ cin \in (IF argv = <<>> THEN FormatDocs ELSE { <<>> })
  /\ indentLevel = indentLevelDefault
  /\ uninit = 0
  /\ trap = FALSE

NextFormat ==
  \/ FileOperand
  \/ NoOperands
  \/ Return

SpecFormat == InitFormat /\ [][NextFormat]_vars

(***************************************************************************)
(* The exact-decimal Number on its own: a literal is parsed into a Number  *)
(* (parse(in, Number &)) and the Number is written back                    *)
(* (os << AsJSON<Number>).  cin holds the literal, log[1].m the parse, out *)
(* the text written.                                                       *)
(***************************************************************************)
\* What the caller has after parseNumber returned or threw.
AfterParseNumber(m) ==
  /\ log' = Append(log, [arg |-> 0, m |-> m])
  /\ cinPos' = m.p
  /\ pc' = CASE m.st = "ok" -> "parsed"
             [] m.st = "abort" -> "aborted"
             [] OTHER -> "done"
  /\ status' = IF m.st = "abort" THEN 134 ELSE status
  /\ good' = (m.st = "ok")

ParseNumber ==
  /\ pc = "number"
  /\ AfterParseNumber(parseNumber(Machine(cin, cinPos, uninit, trap, indentLevel)))
  /\ UNCHANGED << argv, argi, indentLevel, cin, out, diag, pass, prevOut, uninit,
                  trap >>

WriteNumber ==
  /\ pc = "parsed"
  /\ out' = out \o printNumber(log[1].m.rv)
  /\ pc' = "done"
  /\ UNCHANGED << argv, argi, good, indentLevel, cin, cinPos, diag, status, log,
                  pass, prevOut, uninit, trap >>

\* The literals: sign, integer part, fraction, exponent.
TwentyOneDigits == <<Chr.zero + 1>> \o Rep(Chr.zero, 20)
LongMaxText ==
  << 57, 50, 50, 51, 51, 55, 50, 48, 51, 54, 56, 53, 52, 55, 55, 53, 56, 48, 55 >>

Signs == { <<>>, <<Chr.minus>> }
IntParts ==
  { <<Chr.zero>>, <<Chr.zero + 1>>, <<Chr.zero + 5>>, <<Chr.zero + 1, Chr.zero + 2>>,
    LongMaxText, TwentyOneDigits }
FracParts ==
  { <<>>, <<Chr.dot, Chr.zero + 5>>, <<Chr.dot, Chr.zero, Chr.zero + 5>>,
    <<Chr.dot, Chr.zero + 2, Chr.zero + 5>> }
ExpParts ==
  { <<>>, <<Chr.e, Chr.zero + 2>>, <<Chr.E, Chr.plus, Chr.zero + 2>>,
    <<Chr.e, Chr.minus, Chr.zero + 1>> }

NumberDocs ==
  { s \o i \o f \o x : s \in Signs, i \in IntParts, f \in FracParts, x \in ExpParts }

InitNumber ==
  /\ argv = <<>> /\ argi = 1 /\ good = TRUE /\ cinPos = 0 /\ out = <<>>
  /\ diag = <<>> /\ pc = "number" /\ status = 0 - 1 /\ log = <<>> /\ pass = 1
  /\ prevOut = <<>>
  /\ cin \in NumberDocs
  /\ indentLevel = indentLevelDefault
  /\ uninit = 0
  /\ trap \in BOOLEAN

NextNumber ==
  \/ ParseNumber
  \/ WriteNumber

SpecNumber == InitNumber /\ [][NextNumber]_vars

\* Literals for the exponent part of parseNumber: what may stand after the
\* 'e' or 'E' (a sign, two signs, a blank, digits or nothing).
ExponentTails ==
  { <<>>, <<Chr.zero + 5>>, <<Chr.zero + 1, Chr.zero + 2>>,
    <<Chr.plus>>, <<Chr.minus>>,
    <<Chr.plus, Chr.zero + 5>>, <<Chr.minus, Chr.zero + 5>>,
    <<Chr.minus, Chr.zero + 1, Chr.zero + 2>>,
    <<Chr.minus, Chr.minus, Chr.zero + 5>>, <<Chr.plus, Chr.minus, Chr.zero + 5>>,
    <<Chr.minus, Chr.plus, Chr.zero + 5>>, <<Chr.plus, Chr.plus, Chr.zero + 5>>,
    <<Chr.minus, Chr.sp, Chr.zero + 5>>, <<Chr.x>> }
ExponentHeads ==
  { <<Chr.zero + 1>>, <<Chr.zero + 1, Chr.zero + 2>>, <<Chr.zero>>,
    <<Chr.zero + 1, Chr.dot, Chr.zero + 5>>,
    <<Chr.zero, Chr.dot, Chr.zero + 2, Chr.zero + 5>> }
ExponentDocs ==
  { s \o h \o <<x>> \o t :
      s \in Signs, h \in ExponentHeads, x \in {Chr.e, Chr.E}, t \in ExponentTails }

InitExponent ==
  /\ argv = <<>> /\ argi = 1 /\ good = TRUE /\ cinPos = 0 /\ out = <<>>
  /\ diag = <<>> /\ pc = "number" /\ status = 0 - 1 /\ log = <<>> /\ pass = 1
  /\ prevOut = <<>>
  /\ cin \in ExponentDocs
  /\ indentLevel = indentLevelDefault
  /\ uninit = 0
  /\ trap \in BOOLEAN

SpecExponent == InitExponent /\ [][NextNumber]_vars


(***************************************************************************)
(* The functions of json.h called on their own, each on a stream that      *)
(* holds cin: log[1] has the function's name (arg) and what it left        *)
(* (m: the stream position p, the value returned rv, how it ended st).     *)
(* escape takes cin as the string to escape.  Two calls go on from the     *)
(* first: peekType once more on the same stream, and parseString on the    *)
(* text escape returned, put between quotes.                               *)
(***************************************************************************)
\* The stream over cin, as the caller hands it to a parser.
Start == Machine(cin, cinPos, uninit, trap, indentLevel)

\* What the caller has after the function returned, threw or ran away.
AfterCall(name, m) ==
  /\ log' = Append(log, [arg |-> name, m |-> m])
  /\ cinPos' = m.p
  /\ good' = (m.st = "ok")
  /\ pc' = IF m.st = "ok" THEN "called" ELSE "failed"
  /\ UNCHANGED << argv, argi, indentLevel, cin, out, diag, status, pass,
                  prevOut, uninit, trap >>

CallPeekType == pc = "call" /\ AfterCall("peekType", peekType(Start))

CallParseString == pc = "call" /\ AfterCall("parseString", parseString(Start))

CallParseInt == pc = "call" /\ AfterCall("parseInt", parseIntLong(Start))

CallParseNumber ==
  pc = "call" /\ AfterCall("parseNumber", parseNumberLong(Start))

CallParseBoolean ==
  pc = "call" /\ AfterCall("parseBoolean", parseBoolean(Start))

CallParseNull == pc = "call" /\ AfterCall("parseNull", parseNull(Start))

\* parseArray and parseObject with the printer's visitors, as prettyArray and
\* prettyObject call them.
CallParseArray ==
  pc = "call" /\ AfterCall("parseArray", parseArray(Start, 0))

CallParseObject ==
  pc = "call" /\ AfterCall("parseObject", parseObject(Start, 0))

CallPretty == pc = "call" /\ AfterCall("pretty", pretty(Start, 0))

CallEscape == pc = "call" /\ AfterCall("escape", escape(Start, cin))

\* peekType once more, on the stream the first call left.
PeekTypeAgain ==
  /\ pc = "called" /\ Len(log) = 1 /\ log[1].arg = "peekType"
  /\ log' = Append(log, [arg |-> "peekType",
                         m |-> peekType([log[1].m EXCEPT !.rv = 0])])
  /\ pc' = "done"
  /\ UNCHANGED << argv, argi, good, indentLevel, cin, cinPos, out, diag,
                  status, pass, prevOut, uninit, trap >>

\* parseString on '"' + escape(cin) + '"'.
ParseEscaped ==
  /\ pc = "called" /\ Len(log) = 1 /\ log[1].arg = "escape"
  /\ log' = Append(log, [arg |-> "parseString",
                         m |-> parseString(Machine(Quoted(log[1].m.o), 0,
                                                   uninit, trap, indentLevel))])
  /\ pc' = "done"
  /\ UNCHANGED << argv, argi, good, indentLevel, cin, cinPos, out, diag,
                  status, pass, prevOut, uninit, trap >>

\* Strings with a \u escape: whole, and with the run of hex digits cut short
\* by a character that is no hex digit, by the closing quote, and by the end
\* of the input.
UBodies ==
  { <<Chr.bslash, Chr.u, Chr.zero, Chr.zero, Chr.e, Chr.nine>>,
    <<Chr.bslash, Chr.u, Chr.zero, Chr.zero, Chr.x, Chr.nine>>,
    <<Chr.bslash, Chr.u, Chr.zero, Chr.zero, Chr.e>>,
    <<Chr.bslash, Chr.u, Chr.zero, Chr.zero>>,
    <<Chr.bslash, Chr.u, Chr.zero>>,
    <<Chr.bslash, Chr.u>>,
    <<Chr.bslash, Chr.u, Chr.x>>,
    <<Chr.a, Chr.bslash, Chr.u, Chr.zero, Chr.zero, Chr.A, Chr.F, Chr.b>>,
    <<Chr.bslash, Chr.n>>, <<Chr.bslash, Chr.bslash, Chr.u>> }

UDocs == UNION { Prefixes(Quoted(b)) : b \in UBodies }

\* Strings handed to escape: every ASCII character on its own and next to
\* another, and UTF-8 sequences, well-formed, malformed and cut short.
ASCIIStrings ==
  { <<c>> : c \in 0..127 }
  \cup { <<Chr.a, c, Chr.b>> : c \in {1, Chr.tab, Chr.nl, 31, Chr.quote,
                                      Chr.bslash, 127} }

UTF8Strings ==
  { <<195, 169>>, <<195, 168>>, <<194, 128>>, <<223, 191>>,
    <<226, 130, 172>>, <<224, 160, 129>>, <<239, 191, 191>>,
    <<240, 159, 152, 128>>, <<Chr.a, 195, 169, Chr.b>>,
    <<195, 40>>, <<195, 41>>, <<195, 195>>, <<195, 233>>, <<195, 232>>,
    <<226, 40, 172>>, <<226, 130, 40>>, <<226, 130, 41>>,
    <<195>>, <<226, 130>>, <<226>>, <<Chr.a, 195>> }

EscapeDocs == ASCIIStrings \cup UTF8Strings

\* Streams for peekType: nothing, one character of every class, or a byte
\* that starts no value, behind whitespace or not, with or without more text.
PeekBytes ==
  { Chr.lbrace, Chr.lbrack, Chr.quote, Chr.minus, Chr.zero, Chr.zero + 5,
    Chr.nine, Chr.t, Chr.f, Chr.n, Chr.x, Chr.a, Chr.A, Chr.colon, Chr.comma,
    Chr.rbrack, Chr.rbrace, Chr.plus, Chr.dot, Chr.slash, 0, 127, 128, 255 }

Whites == { <<>>, <<Chr.sp>>, <<Chr.nl, Chr.tab>>, <<Chr.cr, 11, Chr.ff, Chr.sp>> }

PeekDocs ==
  Whites
  \cup { w \o <<b>> \o r : w \in Whites, b \in PeekBytes,
                           r \in {<<>>, <<Chr.sp, Chr.zero + 1>>} }

\* One value of each type, behind whitespace or not, and followed by text
\* that is not part of it.
Values ==
  { [k |-> "Number", v |-> <<Chr.zero>>],
    [k |-> "Number", v |-> <<Chr.zero + 7>>],
    [k |-> "Number", v |-> <<Chr.minus, Chr.zero + 1, Chr.zero + 2>>],
    [k |-> "Number", v |-> <<Chr.zero + 1, Chr.zero + 2, Chr.zero>>],
    [k |-> "String", v |-> Quoted(<<>>)],
    [k |-> "String", v |-> Quoted(<<Chr.a>>)],
    [k |-> "String", v |-> Quoted(<<Chr.a, Chr.bslash, Chr.quote, Chr.b>>)],
    [k |-> "Boolean", v |-> <<Chr.t, Chr.r, Chr.u, Chr.e>>],
    [k |-> "Boolean", v |-> <<Chr.f, Chr.a, Chr.l, Chr.s, Chr.e>>],
    [k |-> "Null", v |-> <<Chr.n, Chr.u, Chr.l, Chr.l>>],
    [k |-> "Array", v |-> <<Chr.lbrack, Chr.rbrack>>],
    [k |-> "Array", v |-> ArrayText(<< <<Chr.zero + 1>>, Quoted(<<Chr.a>>) >>)],
    [k |-> "Object", v |-> <<Chr.lbrace, Chr.rbrace>>],
    [k |-> "Object",
     v |-> ObjectText(<< << <<Chr.a>>, ArrayText(<< <<Chr.zero + 1>> >>) >> >>)] }

Tails ==
  { <<>>, <<Chr.sp>>, <<Chr.comma>>, <<Chr.rbrack>>, <<Chr.rbrace>>,
    <<Chr.colon>>, <<Chr.sp, Chr.x>>, <<Chr.quote>>, <<Chr.t>>,
    <<Chr.lbrack, Chr.zero + 1>>, <<Chr.nl, Chr.zero + 1>> }

ValueCases ==
  { [text |-> w \o x.v \o r, k |-> x.k, end |-> Len(w) + Len(x.v)] :
      w \in {<<>>, <<Chr.sp, Chr.nl>>}, x \in Values, r \in Tails }

ValueDocs == { c.text : c \in ValueCases }

\* Arrays: the elements, how they are separated, and what comes after the
\* last of them (the closing bracket, a trailing comma, nothing, a character
\* that is neither bracket nor comma, another value without a comma).
ArrayEndings ==
  { <<Chr.rbrack>>, <<Chr.sp, Chr.rbrack>>, <<Chr.comma, Chr.rbrack>>,
    <<>>, <<Chr.sp>>, <<Chr.comma>>, <<Chr.x>>, <<Chr.rbrace>>, <<Chr.colon>>,
    <<Chr.sp, Chr.zero + 1, Chr.rbrack>>, <<255>> }

ArrayDocs ==
  { <<Chr.lbrack>> \o open \o Join(q, sep) \o r :
      open \in {<<>>, <<Chr.sp>>}, q \in SeqsUpTo(InnerScalars, MaxElems),
      sep \in {<<Chr.comma>>, <<Chr.sp, Chr.comma, Chr.nl>>},
      r \in ArrayEndings }

\* Objects: the fields, how name, colon and value and the fields themselves
\* are separated, what comes before the first field and after the last (the
\* closing brace, commas, nothing, a character that starts no field, a name
\* that no colon follows).
ObjectStyles ==
  { [colon |-> <<Chr.colon>>, sep |-> <<Chr.comma>>],
    [colon |-> <<Chr.sp, Chr.colon, Chr.sp>>, sep |-> <<Chr.sp, Chr.comma, Chr.nl>>],
    [colon |-> <<Chr.colon>>, sep |-> <<Chr.sp>>],
    [colon |-> <<Chr.colon>>, sep |-> <<Chr.comma, Chr.comma>>] }

ObjectEndings ==
  { <<Chr.rbrace>>, <<Chr.sp, Chr.rbrace>>, <<Chr.comma, Chr.rbrace>>,
    <<>>, <<Chr.comma>>, <<Chr.x>>, <<Chr.rbrack>>, <<Chr.colon>>, <<255>>,
    <<Chr.zero + 1, Chr.rbrace>>,
    <<Chr.comma>> \o Quoted(<<Chr.x>>) \o <<Chr.rbrace>>,
    <<Chr.comma>> \o Quoted(<<Chr.x>>) \o <<Chr.sp, Chr.zero + 1, Chr.rbrace>>,
    <<Chr.comma>> \o Quoted(<<Chr.x>>),
    <<Chr.comma>> \o Quoted(<<Chr.x>>) \o <<Chr.comma, Chr.rbrace>> }

ObjectDocs ==
  { <<Chr.lbrace>> \o open
    \o Join([j \in 1..Len(q) |->
               Quoted(<< Chr.a + (j - 1) >>) \o y.colon \o q[j]], y.sep)
    \o r :
      open \in {<<>>, <<Chr.comma, Chr.sp>>},
      q \in SeqsUpTo(InnerScalars, MaxElems), y \in ObjectStyles,
      r \in ObjectEndings }

\* String values: the strings handed to escape as they stand between quotes,
\* and the quote and the backslash behind a backslash.
StringDocs ==
  { Quoted(b) : b \in EscapeDocs }
  \cup { Quoted(<<Chr.bslash, Chr.quote>>), Quoted(<<Chr.bslash, Chr.bslash>>),
         Quoted(<<Chr.a, Chr.bslash, Chr.quote, 1, 195, 169, Chr.bslash,
                  Chr.bslash, Chr.b>>) }

\* The literals, whole, cut short at every position, and with a character
\* that is not theirs.
LiteralDocs ==
  UNION { Prefixes(w \o x) : w \in {<<>>, <<Chr.sp>>},
                             x \in {TrueText, FalseText, NullText} }
  \cup { <<Chr.t, Chr.r, Chr.u, Chr.x>>, <<Chr.t, Chr.r, Chr.u, Chr.E>>,
         <<Chr.n, Chr.u, Chr.l, Chr.x>>, <<Chr.n, Chr.u, Chr.n>>,
         <<Chr.f, Chr.a, Chr.l, Chr.s, Chr.x>>, <<Chr.f, Chr.r>>,
         <<Chr.t, Chr.r, Chr.u, Chr.e, Chr.e>>,
         <<Chr.n, Chr.u, Chr.l, Chr.l, Chr.comma>> }

ParseDocs ==
  UDocs \cup EscapeDocs \cup PeekDocs \cup ValueDocs \cup ArrayDocs
  \cup ObjectDocs \cup StringDocs \cup LiteralDocs

InitParse ==
  /\ argv = <<>> /\ argi = 1 /\ good = TRUE /\ cinPos = 0 /\ out = <<>>
  /\ diag = <<>> /\ pc = "call" /\ status = 0 - 1 /\ log = <<>> /\ pass = 1
  /\ prevOut = <<>>
  /\ cin \in ParseDocs
  /\ indentLevel = indentLevelDefault
  /\ uninit \in Uninit
  /\ trap = FALSE

NextParse ==
  \/ CallPeekType
  \/ CallParseString
  \/ CallParseInt
  \/ CallParseNumber
  \/ CallParseBoolean
  \/ CallParseNull
  \/ CallParseArray
  \/ CallParseObject
  \/ CallPretty
  \/ CallEscape
  \/ PeekTypeAgain
  \/ ParseEscaped

SpecParse == InitParse /\ [][NextParse]_vars


(***************************************************************************)
(* Documents for the layout of containers: values given as trees, each     *)
(* written out in several ways (no whitespace, whitespace round every      *)
(* token, and for objects commas before, between and after the fields),    *)
(* rendered with indent units of which one reaches maxindent at the second *)
(* level of nesting.                                                       *)
(***************************************************************************)
Leaf(text) == [k |-> "scalar", text |-> text, kids |-> <<>>]

FieldName(j) == << Chr.a + (j - 1) >>

ArrayOf(nodes) ==
  [ k |-> "array", text |-> <<>>,
    kids |-> [j \in 1..Len(nodes) |-> [name |-> <<>>, node |-> nodes[j]]] ]

ObjectOf(nodes) ==
  [ k |-> "object", text |-> <<>>,
    kids |-> [j \in 1..Len(nodes) |-> [name |-> FieldName(j), node |-> nodes[j]]] ]

Leaves == { Leaf(<<Chr.zero + 1>>), Leaf(Quoted(<<Chr.a>>)) }

FlatTrees ==
  { ArrayOf(q) : q \in SeqsUpTo(Leaves, MaxElems) }
  \cup { ObjectOf(q) : q \in SeqsUpTo(Leaves, MaxElems) }

\* Containers of at most one scalar, and what a container holds when it
\* holds one of them: it alone, or it before or after a scalar.
InnerTrees ==
  { ArrayOf(q) : q \in SeqsUpTo(Leaves, 1) }
  \cup { ObjectOf(q) : q \in SeqsUpTo(Leaves, 1) }

NestedKids ==
  { <<c>> : c \in InnerTrees }
  \cup { <<c, l>> : c \in InnerTrees, l \in Leaves }
  \cup { <<l, c>> : c \in InnerTrees, l \in Leaves }

NestedTrees ==
  { ArrayOf(q) : q \in NestedKids } \cup { ObjectOf(q) : q \in NestedKids }

Trees == Leaves \cup FlatTrees \cup NestedTrees

Styles == { "tight", "spaced", "commas" }

\* The whitespace a style puts round a token, and what it puts before,
\* between and after the fields of an object.
Blank(style) ==
  CASE style = "tight" -> <<>>
    [] style = "spaced" -> <<Chr.sp>>
    [] style = "commas" -> <<Chr.nl, Chr.tab>>

Extra(style) == IF style = "commas" THEN <<Chr.comma>> ELSE <<>>

RECURSIVE TextOf(_, _)
RECURSIVE KidsText(_, _, _)

\* The fields or elements from the j-th on, as the style writes them.
KidsText(node, style, j) ==
  IF j > Len(node.kids) THEN <<>>
  ELSE (IF j > 1 THEN Blank(style) \o <<Chr.comma>> ELSE <<>>)
       \o Blank(style)
       \o (IF node.k = "object"
             THEN Extra(style) \o Quoted(node.kids[j].name) \o Blank(style)
                  \o <<Chr.colon>> \o Blank(style)
             ELSE <<>>)
       \o TextOf(node.kids[j].node, style)
       \o KidsText(node, style, j + 1)

TextOf(node, style) ==
  CASE node.k = "scalar" -> node.text
    [] node.k = "array" ->
         <<Chr.lbrack>> \o KidsText(node, style, 1) \o Blank(style)
         \o <<Chr.rbrack>>
    [] node.k = "object" ->
         <<Chr.lbrace>> \o KidsText(node, style, 1) \o Blank(style)
         \o Extra(style) \o Extra(style) \o Blank(style) \o <<Chr.rbrace>>

LayoutCases == { [text |-> TextOf(t, s), tree |-> t] : t \in Trees, s \in Styles }

LayoutDocs == { c.text : c \in LayoutCases }

LayoutUnits == { indentLevelDefault, 0, 5000 }

\* jdent -i unit, one document on standard input.
InitLayout ==
  /\ InitMain
  /\ argv = <<>>
  /\ cin \in LayoutDocs
  /\ indentLevel \in LayoutUnits
  /\ uninit \in Uninit
  /\ trap = FALSE

NextLayout ==
  \/ NoOperands
  \/ Return

SpecLayout == InitLayout /\ [][NextLayout]_vars


(***************************************************************************)
(* A \uXXXX escape through the parser and back through the printer: cin is *)
(* the string "\uXXXX", log[1].m.rv the bytes parseString made of it       *)
(* (operator<<(UTF8)), log[2].m.o what Escape writes for those bytes.      *)
(***************************************************************************)
UpperHex == <<48, 49, 50, 51, 52, 53, 54, 55, 56, 57, 65, 66, 67, 68, 69, 70>>

\* "\uXXXX" for the code point cp, in uppercase hex.
UEscapeText(cp) ==
  Quoted(<< Chr.bslash, Chr.u, UpperHex[((cp \div 4096) % 16) + 1],
            UpperHex[((cp \div 256) % 16) + 1],
            UpperHex[((cp \div 16) % 16) + 1], UpperHex[(cp % 16) + 1] >>)

\* The code points that a \uXXXX escape can name and one byte cannot hold.
CodePoints == 128..65535

ParseUEscape ==
  /\ pc = "utf8"
  /\ log' = Append(log, [arg |-> "parseString", m |-> parseString(Start)])
  /\ cinPos' = Len(cin)
  /\ pc' = "parsed"
  /\ UNCHANGED << argv, argi, good, indentLevel, cin, out, diag, status, pass,
                  prevOut, uninit, trap >>

WriteEscaped ==
  /\ pc = "parsed" /\ Len(log) = 1 /\ log[1].m.st = "ok"
  /\ log' = Append(log, [arg |-> "Escape",
                         m |-> Escape(Machine(<<>>, 0, uninit, trap,
                                              indentLevel), log[1].m.rv)])
  /\ out' = out \o Escape(Machine(<<>>, 0, uninit, trap, indentLevel),
                          log[1].m.rv).o
  /\ pc' = "done"
  /\ UNCHANGED << argv, argi, good, indentLevel, cin, cinPos, diag, status,
                  pass, prevOut, uninit, trap >>

InitUTF8 ==
  /\ argv = <<>> /\ argi = 1 /\ good = TRUE /\ cinPos = 0 /\ out = <<>>
  /\ diag = <<>> /\ pc = "utf8" /\ status = 0 - 1 /\ log = <<>> /\ pass = 1
  /\ prevOut = <<>>
  /\ cin \in { UEscapeText(cp) : cp \in CodePoints }
  /\ indentLevel = indentLevelDefault
  /\ uninit = 0
  /\ trap = FALSE

NextUTF8 ==
  \/ ParseUEscape
  \/ WriteEscaped

SpecUTF8 == InitUTF8 /\ [][NextUTF8]_vars


(***************************************************************************)
(* A Number made by the caller, written (os << AsJSON<Number>) and read    *)
(* back (parseNumber): log[1].m.rv is the Number, out the text written,    *)
(* log[2].m the parse of that text.                                        *)
(***************************************************************************)
LongMinDigits ==
  << 57, 50, 50, 51, 51, 55, 50, 48, 51, 54, 56, 53, 52, 55, 55, 53, 56, 48, 56 >>

\* Values of a long, as decimal texts: zero, small and large ones of both
\* signs, LONG_MAX and LONG_MIN.
LongTexts ==
  { <<Chr.zero>>, <<Chr.zero + 1>>, <<Chr.minus, Chr.zero + 1>>,
    <<Chr.zero + 5>>, <<Chr.minus, Chr.zero + 5>>,
    <<Chr.zero + 1, Chr.zero + 2>>,
    <<Chr.minus, Chr.zero + 1, Chr.zero + 2, Chr.zero>>,
    <<Chr.zero + 1, Chr.zero, Chr.zero>>,
    <<Chr.zero + 1>> \o Rep(Chr.zero, 18),
    LongMaxText, <<Chr.minus>> \o LongMaxText,
    <<Chr.minus>> \o LongMinDigits }

RECURSIVE LongOfDigits(_, _)
LongOfDigits(digs, acc) ==
  IF digs = <<>> THEN acc
  ELSE LongOfDigits(Tail(digs), L64MulAdd(acc, 10, Head(digs) - Chr.zero).v)

\* The long that a text of LongTexts denotes.
LongOf(text) ==
  IF Head(text) = Chr.minus THEN L64Neg(LongOfDigits(Tail(text), L64Zero))
  ELSE LongOfDigits(text, L64Zero)

\* parseNumber on the text that was written.
ReadNumber ==
  /\ pc = "done" /\ Len(log) = 1
  /\ log' = Append(log, [arg |-> 1,
                         m |-> parseNumber(Machine(out, 0, uninit, trap,
                                                   indentLevel))])
  /\ pc' = "read"
  /\ UNCHANGED << argv, argi, good, indentLevel, cin, cinPos, out, diag,
                  status, pass, prevOut, uninit, trap >>

InitPrint ==
  /\ argv = <<>> /\ argi = 1 /\ good = TRUE /\ cinPos = 0 /\ out = <<>>
  /\ diag = <<>> /\ pc = "parsed" /\ status = 0 - 1 /\ pass = 1
  /\ prevOut = <<>> /\ cin = <<>>
  /\ indentLevel = indentLevelDefault
  /\ uninit = 0
  /\ trap \in BOOLEAN
  /\ \E mt \in LongTexts, et \in LongTexts :
       log = << [arg |-> 0,
                 m |-> [Machine(<<>>, 0, 0, trap, indentLevelDefault)
                          EXCEPT !.rv = [mantissa |-> LongOf(mt),
                                         exponent |-> LongOf(et),
                                         ovf |-> FALSE]]] >>

NextPrint ==
  \/ WriteNumber
  \/ ReadNumber

SpecPrint == InitPrint /\ [][NextPrint]_vars


(***************************************************************************)
(* Properties.  Each run of indent is in log with its input (m.s), what it *)
(* wrote (m.o), how it ended (m.st) and the fields its visitor was given   *)
(* (m.ev).                                                                 *)
(***************************************************************************)
\* The index of the quote that closes the string whose body starts at i, or
\* an index past the end of the text when nothing closes it.
RECURSIVE StringEnd(_, _)
StringEnd(o, i) ==
  IF i > Len(o) THEN i
  ELSE IF o[i] = Chr.bslash THEN StringEnd(o, i + 2)
  ELSE IF o[i] = Chr.quote THEN i
  ELSE StringEnd(o, i + 1)

\* The field names of a JSON text, as written, in the order of the text: the
\* strings that a colon follows.
RECURSIVE NamesWritten(_, _)
NamesWritten(o, i) ==
  IF i > Len(o) THEN <<>>
  ELSE IF o[i] # Chr.quote THEN NamesWritten(o, i + 1)
  ELSE Let(StringEnd(o, i + 1), LAMBDA j :
             IF j < Len(o) /\ o[j + 1] = Chr.colon
               THEN << SubSeq(o, i + 1, j - 1) >> \o NamesWritten(o, j + 1)
             ELSE NamesWritten(o, j + 1))

\* The fields the parser read, in the order it read them.
FieldsRead(m) == SelectSeq(m.ev, LAMBDA e : e.k = "field")

\* A field name as the escaper writes it.
EscapedName(name) == Escape(Machine(<<>>, 0, 0, FALSE, 0), name).o

NamesReadEscaped(fs) == [j \in 1..Len(fs) |-> EscapedName(fs[j].name)]

FieldOrderKept(m) == NamesWritten(m.o, 1) = NamesReadEscaped(FieldsRead(m))

\* C1: for every accepted document, the field names in the output are the
\* field names the parser read, one for one and in the same order: the k-th
\* name written is the k-th name read, also when a name repeats.
C1_FieldOrderPreserved ==
  \A k \in 1..Len(log) : log[k].m.st = "ok" => FieldOrderKept(log[k].m)

RepeatsAName(fs) == Len(fs) >= 2 /\ fs[1].name = fs[2].name

\* An accepted document with an object whose first two fields share a name.
C1_Witness ==
  \E k \in 1..Len(log) : log[k].m.st = "ok" /\ RepeatsAName(FieldsRead(log[k].m))

\* C2: once main has returned, indent has been called on every file operand,
\* whatever happened to the operands before it.
C2_EveryOperandProcessed ==
  pc = "done" =>
    \A i \in 1..Len(argv) :
      argv[i].kind = "file" => \E k \in 1..Len(log) : log[k].arg = i

\* Operand i was opened, parsed and rendered.
Rendered(i) == \E k \in 1..Len(log) : log[k].arg = i /\ log[k].m.st = "ok"

EveryDocumentRendered ==
  IF Len(argv) = 0 THEN Rendered(0)
  ELSE \A i \in 1..Len(argv) : argv[i].kind # "missing" /\ Rendered(i)

\* C3: the exit status is 0 if every document was parsed and rendered, and 1
\* if any was not, an operand that could not be opened included.
C3_ExitStatus ==
  pc = "done" => status = (IF EveryDocumentRendered THEN 0 ELSE 1)

\* A stream that starts with the first byte of the byte-order mark and does
\* not go on as the mark does.
MalformedBOM(s) ==
  s # <<>> /\ s[1] = bom[1] /\ SubSeq(s, 1, Min(Len(s), Len(bom))) # bom

InvalidJSONLines == SelectSeq(diag, LAMBDA d : d.line = "invalid JSON")

\* C4: a document that starts with a malformed byte-order mark fails inside
\* indent like any other: InvalidJSON is caught, a line 'invalid JSON: ...' is
\* written and indent returns false; the run is not ended by the exception.
C4_FailuresCaught ==
  \A k \in 1..Len(log) :
    MalformedBOM(log[k].m.s) =>
      log[k].m.st = "invalid" /\ pc # "aborted" /\ Len(InvalidJSONLines) >= 1


\* A number literal taken apart by its grammar: sign, integer digits,
\* fraction digits, exponent.
RECURSIVE DigitsFrom(_, _)
DigitsFrom(s, i) ==
  IF i <= Len(s) /\ isdigit(s[i]) THEN <<s[i]>> \o DigitsFrom(s, i + 1) ELSE <<>>

RECURSIVE DecValue(_)
DecValue(digs) ==
  IF digs = <<>> THEN 0 ELSE DecValue(SubSeq(digs, 1, Len(digs) - 1)) * 10
                              + (Last(digs) - Chr.zero)

LitNeg(s) == s # <<>> /\ s[1] = Chr.minus
LitBody(s) == IF LitNeg(s) THEN Tail(s) ELSE s
LitInt(s) == DigitsFrom(LitBody(s), 1)
LitAfterInt(s) == SubSeq(LitBody(s), Len(LitInt(s)) + 1, Len(LitBody(s)))
LitHasFrac(s) == LitAfterInt(s) # <<>> /\ Head(LitAfterInt(s)) = Chr.dot
LitFrac(s) == IF LitHasFrac(s) THEN DigitsFrom(LitAfterInt(s), 2) ELSE <<>>
LitAfterFrac(s) ==
  IF LitHasFrac(s)
    THEN SubSeq(LitAfterInt(s), Len(LitFrac(s)) + 2, Len(LitAfterInt(s)))
  ELSE LitAfterInt(s)

\* The exponent part x: 'e' or 'E', an optional sign, digits.
ExpValue(x) ==
  IF x = <<>> THEN 0
  ELSE IF x[2] = Chr.minus THEN 0 - DecValue(DigitsFrom(x, 3))
  ELSE IF x[2] = Chr.plus THEN DecValue(DigitsFrom(x, 3))
  ELSE DecValue(DigitsFrom(x, 2))

\* The literal's value as mantissa * 10^exponent, exactly: the mantissa is
\* the integer and fraction digits read as one integer, with the sign.
RECURSIVE DecL64(_, _)
DecL64(digs, acc) ==
  IF digs = <<>> THEN acc
  ELSE IF acc[4] > LimbBase THEN acc
  ELSE DecL64(Tail(digs), L64MulAdd(acc, 10, Head(digs) - Chr.zero).v)

ExactMantissa(s) ==
  IF LitNeg(s) THEN L64Neg(DecL64(LitInt(s) \o LitFrac(s), L64Zero))
  ELSE DecL64(LitInt(s) \o LitFrac(s), L64Zero)

ExactExponent(s) == ExpValue(LitAfterFrac(s)) - Len(LitFrac(s))

\* v * 10^k for k >= 0, or <<>> when it leaves the range of long.
RECURSIVE Scale10(_, _)
Scale10(v, k) ==
  IF k = 0 THEN v
  ELSE IF SMul10Add(v, 0).ovf THEN <<>>
  ELSE Scale10(SMul10Add(v, 0).v, k - 1)

\* mantissa m, exponent e (a long) against mantissa M, exponent E (an int).
SameValue(m, e, M, E) ==
  IF ~L64Fits(e) THEN FALSE
  ELSE IF L64ToInt(e) >= E THEN Scale10(m, L64ToInt(e) - E) = M
  ELSE m = Scale10(M, E - L64ToInt(e))

\* The digits of the literal fit a long with room to spare.
FitsMantissa(s) == Len(LitInt(s) \o LitFrac(s)) <= 18

\* An unsigned integer literal of more digits than a long holds.
BigInteger(s) == s = LitInt(s) /\ Len(s) > 19

\* C5: an integer literal of more digits than a 64-bit word holds is parsed
\* without the mantissa overflowing and is written back digit for digit.
C5_BigIntegerRoundTrips ==
  \A k \in 1..Len(log) :
    BigInteger(log[k].m.s) =>
      /\ log[k].m.st = "ok"
      /\ ~log[k].m.rv.ovf
      /\ pc = "done" => out = log[k].m.s

\* C6: for a literal whose digits fit the mantissa, parseNumber returns a
\* Number whose value mantissa * 10^exponent is the literal's value, sign
\* included.
C6_NumberValueExact ==
  \A k \in 1..Len(log) :
    FitsMantissa(log[k].m.s) =>
      /\ log[k].m.st = "ok"
      /\ SameValue(log[k].m.rv.mantissa, log[k].m.rv.exponent,
                   ExactMantissa(log[k].m.s), ExactExponent(log[k].m.s))

\* C7: the output of a run that succeeded, given to a second run at the same
\* indent width, is accepted and written out again byte for byte.
C7_RenderFixedPoint ==
  (pass = 2 /\ pc \in {"done", "aborted", "diverged"}) =>
    (pc = "done" /\ status = 0 /\ out = prevOut)

\* A document that is a string the stream ends in.
UnterminatedString(s) ==
  s # <<>> /\ s[1] = Chr.quote /\ StringEnd(s, 2) > Len(s)

\* C8: a string that the end of the stream cuts short fails with InvalidJSON:
\* the parser neither returns a string nor goes on reading.
C8_UnterminatedStringFails ==
  \A k \in 1..Len(log) :
    UnterminatedString(log[k].m.s) => log[k].m.st = "invalid"

\* C9: a document that fails to parse has had nothing written to the output.
C9_NoOutputOnFailure ==
  \A k \in 1..Len(log) : log[k].m.st = "invalid" => log[k].m.o = <<>>

\* A zero that starts a number and has a digit after it.
LeadingZeroAt(s, i) ==
  /\ s[i] = Chr.zero
  /\ i < Len(s) /\ isdigit(s[i + 1])
  /\ (i = 1 \/ (~isdigit(s[i - 1]) /\ s[i - 1] # Chr.dot))

\* Whether the text has such a number from i on, outside its strings.
RECURSIVE HasLeadingZero(_, _)
HasLeadingZero(s, i) ==
  IF i > Len(s) THEN FALSE
  ELSE IF s[i] = Chr.quote THEN HasLeadingZero(s, StringEnd(s, i + 1) + 1)
  ELSE IF LeadingZeroAt(s, i) THEN TRUE
  ELSE HasLeadingZero(s, i + 1)

\* C10: a document with a number that starts with a zero followed by a digit
\* is rejected, wherever the number stands, also as the whole document.
C10_LeadingZeroRejected ==
  \A k \in 1..Len(log) :
    HasLeadingZero(log[k].m.s, 1) => log[k].m.st = "invalid"


\* Hex digits as the grammar of a \u escape has them.
IsHex(c) ==
  \/ c >= Chr.zero /\ c <= Chr.nine
  \/ c >= Chr.a /\ c <= Chr.f
  \/ c >= Chr.A /\ c <= Chr.F

\* The string body that starts at s[i] has, before its closing quote, a \u
\* that fewer than four hex digits follow.
RECURSIVE HasShortU(_, _)
HasShortU(s, i) ==
  IF i > Len(s) \/ s[i] = Chr.quote THEN FALSE
  ELSE IF s[i] # Chr.bslash THEN HasShortU(s, i + 1)
  ELSE IF i + 1 > Len(s) THEN FALSE
  ELSE IF s[i + 1] # Chr.u THEN HasShortU(s, i + 2)
  ELSE \/ \E k \in 1..4 : i + 1 + k > Len(s) \/ ~IsHex(s[i + 1 + k])
       \/ HasShortU(s, i + 6)

\* C11: parseString on a string in which a \u escape is followed by fewer
\* than four hex digits (the run is ended by a character that is no hex
\* digit, by the closing quote, or by the end of the input) fails with
\* InvalidJSON.
C11_ShortUnicodeEscapeFails ==
  \A k \in 1..Len(log) :
    (log[k].arg = "parseString" /\ log[k].m.s = cin /\ Len(cin) > 0
       /\ cin[1] = Chr.quote /\ HasShortU(cin, 2))
      => log[k].m.st = "invalid"

\* The number of bytes of the UTF-8 sequence that the lead byte b announces.
SequenceLength(b) ==
  CASE b < 128 -> 1
    [] b < 192 -> 1
    [] b < 224 -> 2
    [] b < 240 -> 3
    [] OTHER -> 4

IsContinuation(b) == b >= 128 /\ b <= 191

\* From s[i] on, every multi-byte lead byte is followed, inside the string, by
\* the continuation bytes (10xxxxxx) it announces.
RECURSIVE ContinuationsWellFormed(_, _)
ContinuationsWellFormed(s, i) ==
  IF i > Len(s) THEN TRUE
  ELSE /\ \A j \in 1..(SequenceLength(s[i]) - 1) :
            i + j <= Len(s) /\ IsContinuation(s[i + j])
       /\ ContinuationsWellFormed(s, i + SequenceLength(s[i]))

\* C12: escape fails with InvalidJSON exactly when some byte it folds into a
\* multi-byte sequence is not of the form 10xxxxxx or the string ends inside
\* the sequence; it never fails when all continuation bytes are well-formed.
C12_ContinuationBytesChecked ==
  \A k \in 1..Len(log) :
    log[k].arg = "escape" =>
      IF ContinuationsWellFormed(cin, 1)
        THEN log[k].m.st = "ok"
        ELSE log[k].m.st = "invalid"

\* The code point that a well-formed two- or three-byte UTF-8 sequence encodes.
CodePointOf(q) ==
  IF Len(q) = 2 THEN (q[1] - 192) * 64 + (q[2] - 128)
  ELSE (q[1] - 224) * 4096 + (q[2] - 128) * 64 + (q[3] - 128)

\* One well-formed two- or three-byte sequence, and nothing else.
IsTwoOrThreeByteCharacter(q) ==
  /\ Len(q) \in {2, 3}
  /\ q[1] >= 192 /\ q[1] <= 239
  /\ SequenceLength(q[1]) = Len(q)
  /\ \A j \in 2..Len(q) : IsContinuation(q[j])

LowerHex == <<48, 49, 50, 51, 52, 53, 54, 55, 56, 57, 97, 98, 99, 100, 101, 102>>

\* The lowercase hex digit of cp at the place of weight w.
HexAt(cp, w) == LowerHex[((cp \div w) % 16) + 1]

\* \u and the four lowercase hex digits of cp.
UEscapeOf(cp) ==
  << Chr.bslash, Chr.u, HexAt(cp, 4096), HexAt(cp, 256), HexAt(cp, 16),
     HexAt(cp, 1) >>

\* C13: escape turns a raw two- or three-byte UTF-8 character for code point
\* cp into \u followed by the four lowercase hex digits of cp (C3 A9 becomes
\* \u00e9).
C13_MultiByteEscaped ==
  \A k \in 1..Len(log) :
    (log[k].arg = "escape" /\ IsTwoOrThreeByteCharacter(cin)) =>
      (log[k].m.st = "ok" /\ log[k].m.o = UEscapeOf(CodePointOf(cin)))

IsASCII(q) == \A j \in 1..Len(q) : q[j] < 128

\* C14: for a string s of ASCII characters, parseString on
\* '"' + escape(s) + '"' succeeds and returns s.
C14_EscapeParseRoundTrip ==
  (Len(log) = 2 /\ log[1].arg = "escape" /\ IsASCII(cin)) =>
    (log[2].m.st = "ok" /\ log[2].m.rv = cin)

Spaces(n) == [j \in 1..n |-> Chr.sp]

Indentation(unit, level) ==
  Spaces(IF unit * level < 8192 THEN unit * level ELSE 8192)

RECURSIVE Layout(_, _, _)
RECURSIVE KidsLayout(_, _, _, _)

\* The elements from the j-th on of a container at nesting level level: each
\* on a line of its own behind the indentation of level + 1, a comma at the
\* end of every line that another element follows.
KidsLayout(node, level, unit, j) ==
  IF j > Len(node.kids) THEN <<>>
  ELSE (IF j > 1 THEN <<Chr.comma>> ELSE <<>>)
       \o <<Chr.nl>> \o Indentation(unit, level + 1)
       \o (IF node.k = "object"
             THEN Quoted(node.kids[j].name) \o <<Chr.colon, Chr.sp>>
             ELSE <<>>)
       \o Layout(node.kids[j].node, level + 1, unit)
       \o KidsLayout(node, level, unit, j + 1)

\* The rendering of a value at nesting level level.
Layout(node, level, unit) ==
  IF node.k = "scalar" THEN node.text
  ELSE (IF node.k = "array" THEN <<Chr.lbrack>> ELSE <<Chr.lbrace>>)
       \o KidsLayout(node, level, unit, 1)
       \o (IF Len(node.kids) > 0
             THEN <<Chr.nl>> \o Indentation(unit, level) ELSE <<>>)
       \o (IF node.k = "array" THEN <<Chr.rbrack>> ELSE <<Chr.rbrace>>)

\* C15: a container without elements is rendered as [] or {} whatever
\* whitespace or commas the accepted input had inside it; a container at
\* nesting level L with elements has each element on a line of its own behind
\* min(unit * (L + 1), 8192) spaces, a comma before the newline between two
\* elements, and its closing bracket on a line of its own behind
\* min(unit * L, 8192) spaces.
C15_ContainerLayout ==
  pc = "done" =>
    /\ status = 0
    /\ \A c \in LayoutCases :
         c.text = cin => out = Layout(c.tree, 0, indentLevel) \o <<Chr.nl>>

\* A container nested in a container has been rendered with an indent unit
\* under which the inner elements are indented by the limit of 8192 spaces.
C15_Witness ==
  /\ pc = "done" /\ status = 0
  /\ indentLevel < 8192 /\ indentLevel * 2 > 8192
  /\ \E c \in LayoutCases :
       /\ c.text = cin /\ c.tree \in NestedTrees
       /\ \E j \in 1..Len(c.tree.kids) : Len(c.tree.kids[j].node.kids) > 0
  /\ Len(out) > 8192 + indentLevel

\* C16: rendering a finite input terminates: no run of indent, on a whole
\* document or on one cut off at any position, is left in a loop that never
\* ends.
C16_RenderingTerminates ==
  /\ pc # "diverged"
  /\ \A k \in 1..Len(log) : log[k].m.st # "diverge"

\* Whitespace as JSON texts have it between tokens, and the number of
\* whitespace characters s starts with.
IsWhite(c) == c \in {9, 10, 11, 12, 13, 32}

RECURSIVE LeadingWhite(_, _)
LeadingWhite(s, n) ==
  IF n < Len(s) /\ IsWhite(s[n + 1]) THEN LeadingWhite(s, n + 1) ELSE n

\* The type of the value that starts at the next non-space character of s:
\* "none" for a character that starts no value.
ClassOf(s) ==
  Let(LeadingWhite(s, 0), LAMBDA n :
    IF n = Len(s) THEN "Eof"
    ELSE CASE s[n + 1] = Chr.lbrace -> "Object"
           [] s[n + 1] = Chr.lbrack -> "Array"
           [] s[n + 1] = Chr.quote -> "String"
           [] s[n + 1] = Chr.minus
                \/ (s[n + 1] >= Chr.zero /\ s[n + 1] <= Chr.nine) -> "Number"
           [] s[n + 1] \in {Chr.t, Chr.f} -> "Boolean"
           [] s[n + 1] = Chr.n -> "Null"
           [] OTHER -> "none")

\* C17: peekType classifies by the next non-space character only (end of
\* stream is EndOfInput, a character that starts no value fails with
\* UnexpectedToken), consumes nothing but the leading whitespace, and gives
\* the same answer when called again.
C17_PeekTypeLooksAhead ==
  \A k \in 1..Len(log) :
    log[k].arg = "peekType" =>
      /\ log[k].m.p = LeadingWhite(cin, 0)
      /\ IF ClassOf(cin) = "none"
           THEN log[k].m.st = "invalid"
           ELSE log[k].m.st = "ok" /\ log[k].m.rv = ClassOf(cin)
      /\ k > 1 => (log[k].m.st = log[1].m.st /\ log[k].m.rv = log[1].m.rv)

\* The types of value that the function named reads.
Reads(name) ==
  CASE name = "parseString" -> {"String"}
    [] name = "parseInt" -> {"Number"}
    [] name = "parseNumber" -> {"Number"}
    [] name = "parseBoolean" -> {"Boolean"}
    [] name = "parseNull" -> {"Null"}
    [] name = "pretty" ->
         {"String", "Number", "Boolean", "Null", "Array", "Object"}
    [] OTHER -> {}

\* C18: a scalar parser, and a render call, on a stream that holds one value
\* of its type followed by other text returns with the stream at the first
\* character after the value: it consumes the value and nothing after it.
C18_ExactlyOneValueConsumed ==
  \A c \in ValueCases :
    (Len(log) = 1 /\ c.text = cin /\ c.k \in Reads(log[1].arg)) =>
      (log[1].m.st = "ok" /\ log[1].m.p = c.end)

\* A parser has returned from a value that more text follows.
C18_Witness ==
  \E c \in ValueCases :
    /\ Len(log) = 1 /\ c.text = cin /\ c.k \in Reads(log[1].arg)
    /\ c.k = "Boolean" /\ c.end < Len(cin)
    /\ log[1].m.st = "ok" /\ cinPos = c.end

\* The index of the first character of s at or after i that is not
\* whitespace: Len(s) + 1 when there is none.
RECURSIVE NextNonSpace(_, _)
NextNonSpace(s, i) ==
  IF i <= Len(s) /\ IsWhite(s[i]) THEN NextNonSpace(s, i + 1) ELSE i

RECURSIVE DigitsEnd(_, _)
DigitsEnd(s, i) ==
  IF i < Len(s) /\ s[i + 1] >= Chr.zero /\ s[i + 1] <= Chr.nine
    THEN DigitsEnd(s, i + 1) ELSE i

\* The index of the last character of the number or string that starts at
\* s[j]; 0 when neither starts there.
ElementEnd(s, j) ==
  IF j > Len(s) THEN 0
  ELSE IF s[j] >= Chr.zero + 1 /\ s[j] <= Chr.nine THEN DigitsEnd(s, j)
  ELSE IF s[j] = Chr.quote /\ StringEnd(s, j + 1) <= Len(s)
    THEN StringEnd(s, j + 1)
  ELSE 0

Is(s, i, c) == i <= Len(s) /\ s[i] = c

\* What the claim prescribes for an array whose next element is looked for
\* from s[i] on: how it ends (st), where the stream is on return (p), where
\* the visitor was invoked (at, the stream positions), and the message of the
\* failure where the claim names it.
RECURSIVE ArrayOutcome(_, _, _)
ArrayOutcome(s, i, at) ==
  Let(NextNonSpace(s, i), LAMBDA j :
    Let(ElementEnd(s, j), LAMBDA e :
      IF e = 0
        THEN [st |-> "invalid", p |-> 0, at |-> Append(at, j - 1), msg |-> ""]
      ELSE Let(NextNonSpace(s, e + 1), LAMBDA n :
        IF Is(s, n, Chr.rbrack)
          THEN [st |-> "ok", p |-> n, at |-> Append(at, j - 1), msg |-> ""]
        ELSE IF Is(s, n, Chr.comma)
          THEN ArrayOutcome(s, n + 1, Append(at, j - 1))
        ELSE [st |-> "invalid", p |-> 0, at |-> Append(at, j - 1),
              msg |-> "expected ']' or ','"])))

\* The same from the opening bracket at s[1].
ArrayExpected(s) ==
  Let(NextNonSpace(s, 2), LAMBDA j :
    IF Is(s, j, Chr.rbrack)
      THEN [st |-> "ok", p |-> j, at |-> <<>>, msg |-> ""]
    ELSE ArrayOutcome(s, 2, <<>>))

\* Where parseArray invoked its visitor, in the order of the calls.
RECURSIVE ElementCalls(_)
ElementCalls(ev) ==
  IF ev = <<>> THEN <<>>
  ELSE (IF Head(ev).k = "element" THEN << Head(ev).at >> ELSE <<>>)
       \o ElementCalls(Tail(ev))

\* C19: on an array of numbers and strings, parseArray on '[' then ']'
\* consumes both without invoking the visitor; otherwise it invokes the
\* visitor once per element, in input order, and after each return the next
\* non-space character must be ',' (another call follows) or ']' (consumed,
\* parseArray returns); any other character and the end of the input fail
\* with "expected ']' or ','", and a comma just before ']' is rejected.
C19_ParseArrayProtocol ==
  (Len(log) = 1 /\ log[1].arg = "parseArray" /\ cin \in ArrayDocs) =>
    Let(ArrayExpected(cin), LAMBDA x :
      /\ log[1].m.st = x.st
      /\ ElementCalls(log[1].m.ev) = x.at
      /\ x.st = "ok" => log[1].m.p = x.p
      /\ x.msg # "" => log[1].m.msg = x.msg)

\* parseArray has returned from an array of two elements that whitespace
\* surrounds, having invoked its visitor twice.
C19_Witness ==
  /\ Len(log) = 1 /\ log[1].arg = "parseArray" /\ log[1].m.st = "ok"
  /\ Len(ElementCalls(log[1].m.ev)) = 2
  /\ cinPos = Len(cin) /\ Is(cin, 2, Chr.sp)

\* What the claim prescribes for an object whose next field, comma or
\* closing brace is looked for from s[i] on: how it ends (st), where the
\* stream is on return (p), the names the visitor was invoked with (names),
\* and the message of the failure where the claim names it.
RECURSIVE ObjectOutcome(_, _, _)

\* The field whose name starts at the quote s[j].
FieldOutcome(s, j, names) ==
  Let(StringEnd(s, j + 1), LAMBDA e :
    Let(NextNonSpace(s, e + 1), LAMBDA n :
      IF ~Is(s, n, Chr.colon)
        THEN [st |-> "invalid", p |-> 0, names |-> names, msg |-> ""]
      ELSE Let(ElementEnd(s, NextNonSpace(s, n + 1)), LAMBDA v :
        IF v = 0
          THEN [st |-> "invalid", p |-> 0,
                names |-> Append(names, SubSeq(s, j + 1, e - 1)), msg |-> ""]
        ELSE ObjectOutcome(s, v + 1,
                           Append(names, SubSeq(s, j + 1, e - 1))))))

ObjectOutcome(s, i, names) ==
  Let(NextNonSpace(s, i), LAMBDA j :
    IF Is(s, j, Chr.quote) THEN FieldOutcome(s, j, names)
    ELSE IF Is(s, j, Chr.rbrace)
      THEN [st |-> "ok", p |-> j, names |-> names, msg |-> ""]
    ELSE IF Is(s, j, Chr.comma) THEN ObjectOutcome(s, j + 1, names)
    ELSE [st |-> "invalid", p |-> 0, names |-> names,
          msg |-> "unexpected character parsing object"])

\* The names parseObject invoked its visitor with, in the order of the calls.
NamesGiven(m) == [j \in 1..Len(FieldsRead(m)) |-> FieldsRead(m)[j].name]

\* C20: on an object whose values are numbers and strings, parseObject,
\* after '{', decides at each step by the next non-space character: '"'
\* parses a field name, requires ':' after it and then invokes the visitor
\* once with that name; '}' is consumed and ends the object; ',' is consumed
\* and the loop goes on; every other character and the end of the input fail
\* with "unexpected character parsing object"; a name that no ':' follows
\* fails without the visitor being invoked for it.
C20_ParseObjectProtocol ==
  (Len(log) = 1 /\ log[1].arg = "parseObject" /\ cin \in ObjectDocs) =>
    Let(ObjectOutcome(cin, 2, <<>>), LAMBDA x :
      /\ log[1].m.st = x.st
      /\ NamesGiven(log[1].m) = x.names
      /\ x.st = "ok" => log[1].m.p = x.p
      /\ x.msg # "" => log[1].m.msg = x.msg)

\* parseObject has failed on a name that no colon follows, after a field it
\* invoked the visitor for.
C20_Witness ==
  /\ Len(log) = 1 /\ log[1].arg = "parseObject" /\ log[1].m.st = "invalid"
  /\ log[1].m.msg = "expected char"
  /\ Len(FieldsRead(log[1].m)) = 1
  /\ \E i \in 1..Len(cin) : cin[i] = Chr.x

\* The letter of the short escape of c.
ShortEscapeOf(c) ==
  CASE c = Chr.quote -> Chr.quote
    [] c = Chr.bslash -> Chr.bslash
    [] c = 8 -> Chr.b
    [] c = 12 -> Chr.f
    [] c = 10 -> Chr.n
    [] c = 13 -> Chr.r
    [] c = 9 -> Chr.t

HasShortEscape(c) == c \in {Chr.quote, Chr.bslash, 8, 12, 10, 13, 9}

\* C21: every byte the printer writes for a string is 7-bit ASCII in
\* 0x20..0x7F, whether escape returns or fails; the quote and the backslash
\* are written as \" and \\, and the controls 0x08, 0x0C, 0x0A, 0x0D, 0x09
\* as \b \f \n \r \t.
C21_StringOutputIsASCII ==
  /\ Len(log) >= 1 /\ (log[1].arg = "escape"
                       \/ (log[1].arg = "pretty" /\ cin \in StringDocs)) =>
       \A j \in 1..Len(log[1].m.o) :
         log[1].m.o[j] >= 32 /\ log[1].m.o[j] <= 127
  /\ (Len(log) >= 1 /\ log[1].arg = "escape" /\ Len(cin) = 1
        /\ HasShortEscape(cin[1])) =>
       (log[1].m.st = "ok"
        /\ log[1].m.o = <<Chr.bslash, ShortEscapeOf(cin[1])>>)
  /\ \A c \in {8, 12, 10, 13, 9} :
       (Len(log) >= 1 /\ log[1].arg = "pretty" /\ cin = Quoted(<<c>>)) =>
         (log[1].m.st = "ok"
          /\ log[1].m.o = Quoted(<<Chr.bslash, ShortEscapeOf(c)>>))
  /\ \A c \in {Chr.quote, Chr.bslash} :
       (Len(log) >= 1 /\ log[1].arg = "pretty"
          /\ cin = Quoted(<<Chr.bslash, c>>)) =>
         (log[1].m.st = "ok"
          /\ log[1].m.o = Quoted(<<Chr.bslash, ShortEscapeOf(c)>>))

\* The printer has rendered a string that holds a quote, a control
\* character, a two-byte UTF-8 character and a backslash.
C21_Witness ==
  /\ Len(log) = 1 /\ log[1].arg = "pretty" /\ log[1].m.st = "ok"
  /\ cin \in StringDocs
  /\ \E j \in 1..Len(cin) : cin[j] >= 128
  /\ \E j \in 1..Len(cin) : cin[j] < 32
  /\ \E j \in 2..(Len(cin) - 1) : cin[j] = Chr.quote
  /\ cinPos = Len(cin)

\* Every \u in the text o, from o[i] on, has its four hex digits.  (A
\* backslash in the printer's output always starts an escape of two
\* characters or a \u escape.)
RECURSIVE UEscapesHaveFourDigits(_, _)
UEscapesHaveFourDigits(o, i) ==
  IF i > Len(o) THEN TRUE
  ELSE IF o[i] # Chr.bslash THEN UEscapesHaveFourDigits(o, i + 1)
  ELSE IF i + 1 > Len(o) \/ o[i + 1] # Chr.u
    THEN UEscapesHaveFourDigits(o, i + 2)
  ELSE /\ \A k \in 1..4 : i + 1 + k <= Len(o) /\ IsHex(o[i + 1 + k])
       /\ UEscapesHaveFourDigits(o, i + 6)

\* C22: a control character below 0x20 that has no short escape is written
\* as \u00XX, and every \u escape the printer writes has exactly four hex
\* digits.
C22_ControlEscapeHasFourDigits ==
  /\ (Len(log) >= 1 /\ log[1].arg = "escape" /\ Len(cin) = 1 /\ cin[1] < 32
        /\ ~HasShortEscape(cin[1])) =>
       (log[1].m.st = "ok" /\ log[1].m.o = UEscapeOf(cin[1]))
  /\ (Len(log) >= 1 /\ log[1].arg = "pretty" /\ cin \in StringDocs
        /\ log[1].m.st = "ok") =>
       UEscapesHaveFourDigits(log[1].m.o, 1)

\* The value of the hex digit c, and the code point that the text "\uXXXX"
\* names.
HexValueOf(c) ==
  IF c <= Chr.nine THEN c - Chr.zero
  ELSE IF c <= Chr.F THEN c - Chr.A + 10
  ELSE c - Chr.a + 10

NamedCodePoint(s) ==
  HexValueOf(s[4]) * 4096 + HexValueOf(s[5]) * 256 + HexValueOf(s[6]) * 16
  + HexValueOf(s[7])

\* UTF-8 for a code point in 0x80..0xFFFF: two bytes up to 0x7FF, three
\* above.
Utf8Of(cp) ==
  IF cp < 2048 THEN << 192 + (cp \div 64), 128 + (cp % 64) >>
  ELSE << 224 + (cp \div 4096), 128 + ((cp \div 64) % 64), 128 + (cp % 64) >>

\* C24: for every code point cp in 0x80..0xFFFF, parsing \uXXXX gives the
\* minimal UTF-8 sequence of cp (two bytes up to 0x7FF, three above, lead
\* prefix and 10xxxxxx continuation bytes), and the escaper turns those bytes
\* back into \u and the four lowercase hex digits of cp.
C24_UTF8RoundTrip ==
  /\ Len(log) >= 1 =>
       (log[1].m.st = "ok" /\ log[1].m.rv = Utf8Of(NamedCodePoint(cin)))
  /\ Len(log) >= 2 =>
       (log[2].m.st = "ok" /\ log[2].m.o = UEscapeOf(NamedCodePoint(cin))
        /\ out = log[2].m.o)

\* A code point above 0x7FF has gone through parser and escaper.
C24_Witness ==
  /\ pc = "done" /\ Len(log) = 2 /\ NamedCodePoint(cin) = 8364
  /\ Len(log[1].m.rv) = 3 /\ Len(out) = 6

StartsWithLiteral(s, text) ==
  Let(LeadingWhite(s, 0), LAMBDA n :
    /\ n + Len(text) <= Len(s)
    /\ SubSeq(s, n + 1, n + Len(text)) = text)

\* C25: parseBoolean succeeds only on the exact text true or false, and
\* parseNull only on the exact text null; on any other text, a literal that
\* the end of the input cuts short included, they fail with InvalidJSON.
C25_LiteralsExact ==
  /\ (Len(log) >= 1 /\ log[1].arg = "parseBoolean") =>
       IF StartsWithLiteral(cin, <<Chr.t, Chr.r, Chr.u, Chr.e>>)
            \/ StartsWithLiteral(cin, <<Chr.f, Chr.a, Chr.l, Chr.s, Chr.e>>)
         THEN log[1].m.st = "ok"
         ELSE log[1].m.st = "invalid"
  /\ (Len(log) >= 1 /\ log[1].arg = "parseNull") =>
       IF StartsWithLiteral(cin, <<Chr.n, Chr.u, Chr.l, Chr.l>>)
         THEN log[1].m.st = "ok"
         ELSE log[1].m.st = "invalid"


\* The number of sign characters that x has from position i on.
RECURSIVE SignCount(_, _)
SignCount(x, i) ==
  IF i <= Len(x) /\ x[i] \in {Chr.plus, Chr.minus} THEN 1 + SignCount(x, i + 1)
  ELSE 0

\* The exponent part x of a literal as the grammar has it: 'e' or 'E', at
\* most one sign character, then a digit.
WellFormedExponent(x) ==
  /\ x # <<>> /\ x[1] \in {Chr.e, Chr.E}
  /\ SignCount(x, 2) <= 1
  /\ SignCount(x, 2) + 2 <= Len(x)
  /\ isdigit(x[SignCount(x, 2) + 2])

\* C26: a literal whose exponent part has two sign characters, or no digit
\* right after the 'e' and its one optional sign, is rejected with
\* InvalidJSON; a literal whose exponent part is well formed is accepted
\* and its exponent value, sign included, is added to the exponent that the
\* fraction digits left.
C26_ExponentOneSign ==
  \A k \in 1..Len(log) :
    (log[k].m.s \in ExponentDocs) =>
      IF WellFormedExponent(LitAfterFrac(log[k].m.s))
        THEN /\ log[k].m.st = "ok"
             /\ L64Fits(log[k].m.rv.exponent)
             /\ L64ToInt(log[k].m.rv.exponent) = ExactExponent(log[k].m.s)
        ELSE log[k].m.st = "invalid"

\* Objects that differ only in their commas: the fields, with no comma, one
\* or two between them, with or without one before the first and after the
\* last.
CommaObjects ==
  { <<Chr.lbrace>> \o open
    \o Join([j \in 1..Len(q) |->
               Quoted(<< Chr.a + (j - 1) >>) \o y.colon \o q[j]], y.sep)
    \o r :
      open \in {<<>>, <<Chr.comma, Chr.sp>>},
      q \in SeqsUpTo(InnerScalars, MaxElems), y \in ObjectStyles,
      r \in { <<Chr.rbrace>>, <<Chr.sp, Chr.rbrace>>, <<Chr.comma, Chr.rbrace>> } }

\* The fields of such an object from s[i] on, each as its line of the
\* rendering: the quoted name, a colon, a blank, the value as it stands.
RECURSIVE FieldLines(_, _, _)
FieldLines(s, i, acc) ==
  Let(NextNonSpace(s, i), LAMBDA j :
    IF Is(s, j, Chr.quote)
      THEN Let(StringEnd(s, j + 1), LAMBDA e :
        Let(NextNonSpace(s, NextNonSpace(s, e + 1) + 1), LAMBDA vs :
          FieldLines(s, ElementEnd(s, vs) + 1,
                     Append(acc, SubSeq(s, j, e) \o <<Chr.colon, Chr.sp>>
                                 \o SubSeq(s, vs, ElementEnd(s, vs))))))
    ELSE IF Is(s, j, Chr.comma) THEN FieldLines(s, j + 1, acc)
    ELSE acc)

\* The rendering of an object at nesting level 0 with these field lines.
ObjectRendering(lines, unit) ==
  <<Chr.lbrace>>
  \o Join([j \in 1..Len(lines) |-> <<Chr.nl>> \o Spaces(unit) \o lines[j]],
          <<Chr.comma>>)
  \o (IF lines # <<>> THEN <<Chr.nl>> ELSE <<>>)
  \o <<Chr.rbrace>>

CommaCount(s) == Cardinality({ i \in 1..Len(s) : s[i] = Chr.comma })

\* C27: an object whose fields are numbers and plain strings is accepted
\* whatever commas the input has before, between and after its fields, and
\* its rendering is determined by the fields alone: every field on a line of
\* its own, exactly one ',' between consecutive fields and none elsewhere.
C27_ObjectCommasIgnored ==
  (Len(log) >= 1 /\ log[1].arg = "pretty" /\ cin \in CommaObjects) =>
    Let(FieldLines(cin, 2, <<>>), LAMBDA lines :
      /\ log[1].m.st = "ok"
      /\ log[1].m.p = Len(cin)
      /\ log[1].m.o = ObjectRendering(lines, indentLevel)
      /\ CommaCount(log[1].m.o) = (IF lines = <<>> THEN 0 ELSE Len(lines) - 1))

\* An object of two fields with a comma before the first, two between them
\* and one after the last has been rendered with one comma.
C27_Witness ==
  /\ Len(log) >= 1 /\ log[1].arg = "pretty" /\ log[1].m.st = "ok"
  /\ cin \in CommaObjects
  /\ cin[2] = Chr.comma /\ cin[Len(cin) - 1] = Chr.comma
  /\ \E i \in 3..(Len(cin) - 2) : cin[i] = Chr.comma /\ cin[i + 1] = Chr.comma
  /\ Len(FieldLines(cin, 2, <<>>)) = 2
  /\ CommaCount(log[1].m.o) = 1

\* The stream of m is exhausted: every byte of it has been consumed.
Exhausted(m) == m.p = Len(m.s)

\* C28: peekType answers EndOfInput only on a stream that is exhausted once
\* its leading whitespace is skipped, never for a byte that is still in the
\* stream; and pretty reports success with nothing written only for an input
\* that holds nothing but whitespace.
C28_EofOnlyWhenExhausted ==
  \A k \in 1..Len(log) :
    /\ (log[k].arg = "peekType" /\ log[k].m.st = "ok" /\ log[k].m.rv = "Eof")
         => Exhausted(log[k].m)
    /\ (log[k].arg = "pretty" /\ log[k].m.st = "ok" /\ log[k].m.o = <<>>)
         => \A i \in 1..Len(cin) : IsWhite(cin[i])

\* The texts that stand outside the strings of s, between its punctuation
\* and whitespace: its numbers and literals, in order.
IsTokenChar(c) ==
  \/ (c >= Chr.zero /\ c <= Chr.nine)
  \/ (c >= Chr.a /\ c <= Chr.a + 25)
  \/ c \in {Chr.minus, Chr.plus, Chr.dot, Chr.E}

Flush(cur, acc) == IF cur = <<>> THEN acc ELSE Append(acc, cur)

RECURSIVE Tokens(_, _, _, _)
Tokens(s, i, cur, acc) ==
  IF i > Len(s) THEN Flush(cur, acc)
  ELSE IF s[i] = Chr.quote
    THEN Tokens(s, StringEnd(s, i + 1) + 1, <<>>, Flush(cur, acc))
  ELSE IF IsTokenChar(s[i]) THEN Tokens(s, i + 1, Append(cur, s[i]), acc)
  ELSE Tokens(s, i + 1, <<>>, Flush(cur, acc))

\* C29: every call of indent that succeeds leaves the sink's base decimal,
\* as it found it, and has written the numbers of its document in
\* decimal, as the input has them, whatever strings and field names were
\* rendered before them in the same document or in the documents before.
C29_NumbersStayDecimal ==
  \A k \in 1..Len(log) :
    log[k].m.st = "ok" =>
      /\ ~log[k].m.hex
      /\ Tokens(log[k].m.o, 1, <<>>, <<>>) = Tokens(log[k].m.s, 1, <<>>, <<>>)

\* A document with a string that was written as a hexadecimal \u escape and
\* a number after it has been rendered, and a document with a number after
\* that one.
C29_Witness ==
  /\ Len(log) = 2 /\ log[1].m.st = "ok" /\ log[2].m.st = "ok"
  /\ log[1].m.s = ArrayText(<< Quoted(<<195, 169>>), <<Chr.zero + 1, Chr.zero>> >>)
  /\ \E i \in 1..Len(log[1].m.o) - 1 :
       log[1].m.o[i] = Chr.bslash /\ log[1].m.o[i + 1] = Chr.u
  /\ log[1].m.fill = Chr.zero
  /\ log[2].m.s \in FormatNumbers
  /\ Tokens(log[2].m.o, 1, <<>>, <<>>) = << log[2].m.s >>

=============================================================================
